---------------------------- MODULE Spec2Model ----------------------------
(***************************************************************************)
(* Verification model of joefrost01/data-pipeline.                         *)
(*                                                                         *)
(* The subsystems are modelled with these specifications:                  *)
(*   BridgeSpec    orchestrator/bridge.py      (Kafka -> Pub/Sub bridge)   *)
(*   PipelineSpec  orchestrator/main.py, validator.py, archiver.py,        *)
(*                 dbt_runner.py               (hermetic batch run)        *)
(*   CacheSpec     regulatory_reporter/main.py (reference cache)           *)
(*   HealthSpec    regulatory_reporter/main.py (cache age, GET /health)    *)
(*   SubmitSpec    regulatory_reporter/main.py (submit_event)              *)
(*   BackoffSpec   regulatory_reporter/main.py (retry delays)              *)
(*   EventIdSpec   regulatory_reporter/main.py (_generate_event_id)        *)
(*   ParseSpec     orchestrator/parsers.py, rules.py (row validation)      *)
(*   ExtractSpec   orchestrator/extract.py     (temp table clean-up)       *)
(*   DriftSpec     basic_orchestrator/main.py  (prepare_dataframe)         *)
(*   LoadFileSpec  basic_orchestrator/main.py  (load_file)                 *)
(*   TrailerSpec   basic_orchestrator/validation.py (process_with_trailer) *)
(*   EnrichSpec    regulatory_reporter/main.py (_enrich_event)             *)
(*   LoadAllSpec   basic_orchestrator/main.py  (load_all, thread pool)     *)
(* A specification leaves the variables of the other subsystems at their   *)
(* initial values.                                                         *)
(***************************************************************************)
EXTENDS Integers, Sequences, FiniteSets, TLC

(***************************************************************************)
(* Bounds                                                                  *)
(***************************************************************************)
MaxRefreshes == 2
StaleThreshold == 1
MaxTime == 2
MaxCalls == 2
MaxAttempts == 2
NumFiles == 2
MaxClock == 1
MaxRows == 1
NumPartitions == 1
MaxOffset == 3
BufferMaxSize == 2
BufferResumeSize == 1
MaxDelay == 3
MaxIdCalls == 2
MaxRules == 2
MaxParsedRows == 1
MaxExtractRuns == 2
MaxDfRows == 1
NumLoadFiles == 2
MaxTrailerRows == 2
TrailerWidth == 2
LoaderWorkers == 2
NumPoolFiles == 3
MaxLoads == 2

VARIABLES
  \* ---- streaming bridge (bridge.py) ----
  kafkaPos,      \* per partition: next offset the consumer will be handed
  assignment,    \* consumer.assignment()
  buffer,        \* StreamingBridge._buffer (deque, maxlen = buffer_max_size)
  received,      \* messages decoded and appended by _consume_messages
  pubPc,         \* position of the publisher thread
  pubMsg,        \* message popped by _publisher_loop, being published
  pending,       \* StreamingBridge._pending_futures
  published,     \* messages whose Pub/Sub publish completed successfully
  uncommitted,   \* StreamingBridge._uncommitted_offsets (-1: no entry)
  commitLog,     \* per partition: offsets submitted to consumer.commit
  paused,        \* StreamingBridge._paused
  shutdown,      \* StreamingBridge._shutdown
  ingestPc,      \* position of the main thread in run()
  lastCheck      \* history: what the last _check_backpressure found

bridgeVars == <<kafkaPos, assignment, buffer, received, pubPc, pubMsg, pending,
                published, uncommitted, commitLog, paused, shutdown, ingestPc,
                lastCheck>>

VARIABLES
  \* ---- batch pipeline (main.py, validator.py, archiver.py, dbt_runner.py) ----
  landing,                 \* object names in the landing bucket
  staging,                 \* staging bucket: name -> "absent" | "empty" | "data"
  failedBucket,            \* object names in the failed bucket
  archive,                 \* object names in the archive bucket
  clock,                   \* wall clock, in the seconds strftime resolves
  blobs,                   \* Validator.run: blobs listed and not yet visited
  vf,                      \* frame of the _validate_file call in progress
  results,                 \* FileValidation returned for each visited blob
  files_passed,            \* Validator.run local
  files_failed,            \* Validator.run local
  validated_output_paths,  \* Validator.run local, then ValidationResult field
  validation_runs,         \* rows of control.validation_runs
  deleteObs,               \* history: staging state seen when a source was deleted
  dbt_result,              \* "none", "success" / "failed" (DbtResult.success), "raised"
  steps,                   \* steps announced by log.info("step_started", ...)
  mainPc,                  \* position of main()
  exitCode                 \* return value of main(), -1 while running

pipeVars == <<landing, staging, failedBucket, archive, clock, blobs, vf, results,
              files_passed, files_failed, validated_output_paths,
              validation_runs, deleteObs, dbt_result, steps, mainPc, exitCode>>

VARIABLES
  \* ---- reporter: reference cache (regulatory_reporter/main.py) ----
  cache,             \* ReferenceCache: the five maps, last_refresh, refresh_in_progress
  cacheLock,         \* holder of ReferenceCache._lock, "free" when not held
  genCounter,        \* number of snapshots built so far by refresh_cache
  rpc,               \* per refresh_cache caller: position in refresh_cache
  rnew,              \* per refresh_cache caller: the snapshot it has built
  rresult,           \* per refresh_cache caller: status of its last call
  readerPc,          \* position of the request thread doing lookups
  obs,               \* snapshots the request thread saw in its lookups
  statusObs,         \* counts last returned by get_cache_status
  rforce,            \* per refresh_cache caller: the force argument of its call
  now,               \* wall clock of the reporter, 0 when the process starts
  healthObs          \* history: last response of GET /health

cacheVars == <<cache, cacheLock, genCounter, rpc, rnew, rresult, readerPc, obs,
               statusObs, rforce, now, healthObs>>

VARIABLES
  \* ---- reporter: submission (regulatory_reporter/main.py) ----
  submissions,       \* control.regulatory_submissions: rows per event_id
  dead_letter,       \* control.regulatory_dead_letter: rows per event_id
  posts,             \* POSTs received by the regulator, per event_id
  sub,               \* per request thread: frame of its submit_event call
  calls,             \* completed submit_event calls, in order of completion
  ticks              \* count of call begin/end events (orders the calls)

submitVars == <<submissions, dead_letter, posts, sub, calls, ticks>>

VARIABLES
  \* ---- reporter: retry backoff (regulatory_reporter/main.py) ----
  retry_config,      \* RegulatoryReporter.retry_config
  retry,             \* frame of _submit_with_retry: position, attempt, delay
  sleeps             \* history: the delays passed to time.sleep, in order

backoffVars == <<retry_config, retry, sleeps>>

VARIABLES
  \* ---- reporter: event ids (regulatory_reporter/main.py) ----
  idCalls            \* history: the _generate_event_id calls made, [event, event_id]

eventIdVars == <<idCalls>>

VARIABLES
  \* ---- row validation (parsers.py, rules.py) ----
  row_rules,         \* spec["validation"]["row_level"], "unset" before the spec is read
  valid_rows,        \* parse_and_validate: rows accepted so far
  quarantined        \* parse_and_validate: rows quarantined so far

parseVars == <<row_rules, valid_rows, quarantined>>

VARIABLES
  \* ---- extract generation (extract.py) ----
  temp_table,        \* control._extract_temp_<date>: "absent" or "present"
  extract_object,    \* the extract in the extracts bucket: "absent" or "data"
  ex,                \* frame of the ExtractGenerator.run call in progress
  exits              \* history: how each ExtractGenerator.run call ended

extractVars == <<temp_table, extract_object, ex, exits>>

VARIABLES
  \* ---- basic orchestrator: schema drift (basic_orchestrator/main.py) ----
  prep               \* history: the last prepare_dataframe call, input and output

driftVars == <<prep>>

VARIABLES
  \* ---- basic orchestrator: load_file (basic_orchestrator/main.py) ----
  fileAt,            \* per data file: the areas that hold a copy of it
  succeeded,         \* history: files for which load_file returned success
  target,            \* target table: number of rows carrying each _load_id
  load_metadata,     \* load_metadata table: number of rows per load_id
  lf,                \* frame of the load_file call in progress
  loadsStarted       \* number of load_file calls so far (uuid4 values used)

loadVars == <<fileAt, succeeded, target, load_metadata, lf, loadsStarted>>

VARIABLES
  \* ---- basic orchestrator: trailer records (validation.py, main.py) ----
  tf                 \* frame of a load_file call for a table with a trailer

trailerVars == <<tf>>

VARIABLES
  \* ---- reporter: enrichment (regulatory_reporter/main.py) ----
  enr                \* history: the last _enrich_event call

enrichVars == <<enr>>

VARIABLES
  \* ---- basic orchestrator: load_all (basic_orchestrator/main.py) ----
  tasks,             \* work queue of the ThreadPoolExecutor: files not yet taken
  worker,            \* per pool thread: frame of the load_file call it runs
  tables             \* per target table: whether it exists in the warehouse

poolVars == <<tasks, worker, tables>>

coreVars == <<bridgeVars, pipeVars, cacheVars, submitVars>>
earlyVars == <<backoffVars, eventIdVars, parseVars, extractVars, driftVars,
               loadVars>>
lateVars == <<trailerVars, enrichVars, poolVars>>
moreVars == <<earlyVars, lateVars>>

notBridgeVars == <<pipeVars, cacheVars, submitVars, moreVars>>
notPipeVars == <<bridgeVars, cacheVars, submitVars, moreVars>>
notCacheVars == <<bridgeVars, pipeVars, submitVars, moreVars>>
notSubmitVars == <<bridgeVars, pipeVars, cacheVars, moreVars>>
notBackoffVars ==
  <<coreVars, eventIdVars, parseVars, extractVars, driftVars, loadVars,
    lateVars>>
notEventIdVars ==
  <<coreVars, backoffVars, parseVars, extractVars, driftVars, loadVars,
    lateVars>>
notParseVars ==
  <<coreVars, backoffVars, eventIdVars, extractVars, driftVars, loadVars,
    lateVars>>
notExtractVars ==
  <<coreVars, backoffVars, eventIdVars, parseVars, driftVars, loadVars,
    lateVars>>
notDriftVars ==
  <<coreVars, backoffVars, eventIdVars, parseVars, extractVars, loadVars,
    lateVars>>
notLoadVars ==
  <<coreVars, backoffVars, eventIdVars, parseVars, extractVars, driftVars,
    lateVars>>

notTrailerVars == <<coreVars, earlyVars, enrichVars, poolVars>>
notEnrichVars == <<coreVars, earlyVars, trailerVars, poolVars>>
notPoolVars == <<coreVars, earlyVars, trailerVars, enrichVars>>

vars == <<coreVars, moreVars>>

(***************************************************************************)
(* Streaming bridge: orchestrator/bridge.py                                *)
(***************************************************************************)
Partitions == 0 .. (NumPartitions - 1)
Offsets == 0 .. (MaxOffset - 1)
Message == [partition : Partitions, offset : Offsets]
NoMsg == [partition |-> -1, offset |-> -1]

\* number of messages the consumer has been handed so far, over all partitions
Consumed(pos) == Cardinality({m \in Message : m.offset < pos[m.partition]})

\* BridgeConfig.buffer_max_size / buffer_resume_size, scaled down
buffer_max_size == BufferMaxSize
buffer_resume_size == BufferResumeSize

\* deque(maxlen=n).append: a full deque discards its leftmost item
DequeAppend(buf, m) ==
  IF Len(buf) >= buffer_max_size
    THEN Tail(buf) \o <<m>>
    ELSE buf \o <<m>>

\* deque(maxlen=n).appendleft: a full deque discards its rightmost item
DequeAppendLeft(buf, m) ==
  IF Len(buf) >= buffer_max_size
    THEN <<m>> \o SubSeq(buf, 1, Len(buf) - 1)
    ELSE <<m>> \o buf

InitBridge ==
  /\ kafkaPos = [p \in Partitions |-> 0]
  /\ assignment = {}
  /\ buffer = <<>>
  /\ received = {}
  /\ pubPc = "loop"
  /\ pubMsg = NoMsg
  /\ pending = {}
  /\ published = {}
  /\ uncommitted = [p \in Partitions |-> -1]
  /\ commitLog = [p \in Partitions |-> <<>>]
  /\ paused = FALSE
  /\ shutdown = FALSE
  /\ ingestPc = "consume"
  /\ lastCheck = [buffer_size |-> 0, assigned |-> FALSE, was_paused |-> FALSE]

\* _handle_shutdown: the signal handler sets the flag at any time
HandleShutdown ==
  /\ ingestPc # "closed"
  /\ ~shutdown
  /\ shutdown' = TRUE
  /\ UNCHANGED <<lastCheck, notBridgeVars>>
  /\ UNCHANGED <<kafkaPos, assignment, buffer, received, pubPc, pubMsg,
                 pending, published, uncommitted, commitLog, paused, ingestPc>>

\* _consume_messages while paused: sleep and return without polling
ConsumePaused ==
  /\ ingestPc = "consume"
  /\ paused
  /\ ingestPc' = "backpressure"
  /\ UNCHANGED <<lastCheck, notBridgeVars>>
  /\ UNCHANGED <<kafkaPos, assignment, buffer, received, pubPc, pubMsg,
                 pending, published, uncommitted, commitLog, paused, shutdown>>

\* _consume_messages: poll returns None or an error event.  poll also serves
\* the group rebalance, which assigns the partitions or revokes them
ConsumePollNone ==
  /\ ingestPc = "consume"
  /\ ~paused
  /\ assignment' \in {assignment, Partitions, {}}
  /\ ingestPc' = "backpressure"
  /\ UNCHANGED <<lastCheck, notBridgeVars>>
  /\ UNCHANGED <<kafkaPos, buffer, received, pubPc, pubMsg,
                 pending, published, uncommitted, commitLog, paused, shutdown>>

\* variant: the paused flag is not consulted before polling
ConsumeMessageWhilePaused(p, decodable) ==
  /\ ingestPc = "consume"
  /\ p \in assignment
  /\ Consumed(kafkaPos) < MaxOffset
  /\ kafkaPos' = [kafkaPos EXCEPT ![p] = @ + 1]
  /\ LET m == [partition |-> p, offset |-> kafkaPos[p]]
     IN IF decodable
          THEN /\ buffer' = DequeAppend(buffer, m)
               /\ received' = received \cup {m}
          ELSE UNCHANGED <<buffer, received>>
  /\ ingestPc' = "backpressure"
  /\ UNCHANGED <<lastCheck, notBridgeVars>>
  /\ UNCHANGED <<assignment, pubPc, pubMsg, pending, published, uncommitted,
                 commitLog, paused, shutdown>>

\* _consume_messages: poll hands over the next message of an assigned
\* partition; decodable is whether json.loads(msg.value()) succeeds
ConsumeMessage(p, decodable) ==
  /\ ingestPc = "consume"
  /\ ~paused
  /\ p \in assignment
  /\ Consumed(kafkaPos) < MaxOffset
  /\ kafkaPos' = [kafkaPos EXCEPT ![p] = @ + 1]
  /\ LET m == [partition |-> p, offset |-> kafkaPos[p]]
     IN IF decodable
          THEN /\ buffer' = DequeAppend(buffer, m)
               /\ received' = received \cup {m}
          ELSE UNCHANGED <<buffer, received>>
  /\ ingestPc' = "backpressure"
  /\ UNCHANGED <<lastCheck, notBridgeVars>>
  /\ UNCHANGED <<assignment, pubPc, pubMsg, pending, published, uncommitted,
                 commitLog, paused, shutdown>>

\* variant: the pause threshold is compared with > instead of >=
CheckBackpressureStrict ==
  /\ ingestPc = "backpressure"
  /\ LET buffer_size == Len(buffer)
     IN IF ~paused /\ buffer_size > buffer_max_size
          THEN paused' = (IF assignment # {} THEN TRUE ELSE paused)
          ELSE IF paused /\ buffer_size <= buffer_resume_size
                 THEN paused' = (IF assignment # {} THEN FALSE ELSE paused)
                 ELSE paused' = paused
  /\ lastCheck' = [buffer_size |-> Len(buffer), assigned |-> assignment # {},
                   was_paused |-> paused]
  /\ ingestPc' = "commit"
  /\ UNCHANGED notBridgeVars
  /\ UNCHANGED <<kafkaPos, assignment, buffer, received, pubPc, pubMsg,
                 pending, published, uncommitted, commitLog, shutdown>>

\* _check_backpressure
CheckBackpressure ==
  /\ ingestPc = "backpressure"
  /\ LET buffer_size == Len(buffer)
     IN IF ~paused /\ buffer_size >= buffer_max_size
          THEN paused' = (IF assignment # {} THEN TRUE ELSE paused)
          ELSE IF paused /\ buffer_size <= buffer_resume_size
                 THEN paused' = (IF assignment # {} THEN FALSE ELSE paused)
                 ELSE paused' = paused
  /\ lastCheck' = [buffer_size |-> Len(buffer), assigned |-> assignment # {},
                   was_paused |-> paused]
  /\ ingestPc' = "commit"
  /\ UNCHANGED notBridgeVars
  /\ UNCHANGED <<kafkaPos, assignment, buffer, received, pubPc, pubMsg,
                 pending, published, uncommitted, commitLog, shutdown>>

\* body of _commit_offsets: every entry of the map is submitted as
\* offset + 1 and the map is cleared; a KafkaException is only logged
SubmitCommits(log) ==
  [p \in Partitions |->
     IF uncommitted[p] # -1 THEN Append(log[p], uncommitted[p] + 1) ELSE log[p]]

CommitBody ==
  /\ commitLog' = SubmitCommits(commitLog)
  /\ uncommitted' = [p \in Partitions |-> -1]

\* _commit_offsets at the end of a cycle of run(), then the loop test
CommitOffsets ==
  /\ ingestPc = "commit"
  /\ CommitBody
  /\ ingestPc' = IF shutdown THEN "drain" ELSE "consume"
  /\ UNCHANGED <<lastCheck, notBridgeVars>>
  /\ UNCHANGED <<kafkaPos, assignment, buffer, received, pubPc, pubMsg,
                 pending, published, paused, shutdown>>

\* _graceful_shutdown: the wait loop ends when the buffer is empty or
\* drain_timeout has elapsed (timedOut)
DrainDone(timedOut) ==
  /\ ingestPc = "drain"
  /\ (buffer = <<>> /\ ~timedOut) \/ (buffer # <<>> /\ timedOut)
  /\ ingestPc' = "final_commit"
  /\ UNCHANGED <<lastCheck, notBridgeVars>>
  /\ UNCHANGED <<kafkaPos, assignment, buffer, received, pubPc, pubMsg,
                 pending, published, uncommitted, commitLog, paused, shutdown>>

\* _graceful_shutdown: final _commit_offsets and consumer.close()
FinalCommit ==
  /\ ingestPc = "final_commit"
  /\ CommitBody
  /\ ingestPc' = "closed"
  /\ UNCHANGED <<lastCheck, notBridgeVars>>
  /\ UNCHANGED <<kafkaPos, assignment, buffer, received, pubPc, pubMsg,
                 pending, published, paused, shutdown>>

\* _publisher_loop: the loop test finds the shutdown flag clear
PublisherLoopTest ==
  /\ ingestPc # "closed"
  /\ pubPc = "loop"
  /\ ~shutdown
  /\ pubPc' = "pop"
  /\ UNCHANGED <<lastCheck, notBridgeVars>>
  /\ UNCHANGED <<kafkaPos, assignment, buffer, received, pubMsg, pending,
                 published, uncommitted, commitLog, paused, shutdown, ingestPc>>

\* _publisher_loop: the buffer is empty; sleep and test again
PublisherSleep ==
  /\ ingestPc # "closed"
  /\ pubPc = "pop"
  /\ buffer = <<>>
  /\ pubPc' = "loop"
  /\ UNCHANGED <<lastCheck, notBridgeVars>>
  /\ UNCHANGED <<kafkaPos, assignment, buffer, received, pubMsg, pending,
                 published, uncommitted, commitLog, paused, shutdown, ingestPc>>

\* _publisher_loop: popleft under the buffer lock
PublisherPop ==
  /\ ingestPc # "closed"
  /\ pubPc = "pop"
  /\ buffer # <<>>
  /\ pubMsg' = Head(buffer)
  /\ buffer' = Tail(buffer)
  /\ pubPc' = "publish"
  /\ UNCHANGED <<lastCheck, notBridgeVars>>
  /\ UNCHANGED <<kafkaPos, assignment, received, pending, published,
                 uncommitted, commitLog, paused, shutdown, ingestPc>>

\* _publisher_loop: the loop test finds the shutdown flag set
PublisherExit ==
  /\ ingestPc # "closed"
  /\ pubPc = "loop"
  /\ shutdown
  /\ pubPc' = "exited"
  /\ UNCHANGED <<lastCheck, notBridgeVars>>
  /\ UNCHANGED <<kafkaPos, assignment, buffer, received, pubMsg, pending,
                 published, uncommitted, commitLog, paused, shutdown, ingestPc>>

\* _publish_message: publish() returns a future, tracked in _pending_futures
PublishAccepted ==
  /\ ingestPc # "closed"
  /\ pubPc = "publish"
  /\ pending' = pending \cup {pubMsg}
  /\ pubMsg' = NoMsg
  /\ pubPc' = "loop"
  /\ UNCHANGED <<lastCheck, notBridgeVars>>
  /\ UNCHANGED <<kafkaPos, assignment, buffer, received, published,
                 uncommitted, commitLog, paused, shutdown, ingestPc>>

\* _publish_message: publish() raises GoogleAPICallError; re-queue at the head
PublishRaises ==
  /\ ingestPc # "closed"
  /\ pubPc = "publish"
  /\ buffer' = DequeAppendLeft(buffer, pubMsg)
  /\ pubMsg' = NoMsg
  /\ pubPc' = "loop"
  /\ UNCHANGED <<lastCheck, notBridgeVars>>
  /\ UNCHANGED <<kafkaPos, assignment, received, pending, published,
                 uncommitted, commitLog, paused, shutdown, ingestPc>>

\* _on_publish_complete: future.result() returned
OnPublishSuccess(m) ==
  /\ ingestPc # "closed"
  /\ m \in pending
  /\ pending' = pending \ {m}
  /\ published' = published \cup {m}
  /\ uncommitted' = IF m.offset > uncommitted[m.partition]
                      THEN [uncommitted EXCEPT ![m.partition] = m.offset]
                      ELSE uncommitted
  /\ UNCHANGED <<lastCheck, notBridgeVars>>
  /\ UNCHANGED <<kafkaPos, assignment, buffer, received, pubPc, pubMsg,
                 commitLog, paused, shutdown, ingestPc>>

\* variant: a failed publish also records its offset for commit
OnPublishFailureTracksOffset(m) ==
  /\ ingestPc # "closed"
  /\ m \in pending
  /\ pending' = pending \ {m}
  /\ uncommitted' = IF m.offset > uncommitted[m.partition]
                      THEN [uncommitted EXCEPT ![m.partition] = m.offset]
                      ELSE uncommitted
  /\ UNCHANGED <<lastCheck, notBridgeVars>>
  /\ UNCHANGED <<kafkaPos, assignment, buffer, received, pubPc, pubMsg,
                 published, commitLog, paused, shutdown, ingestPc>>

\* _on_publish_complete: future.result() raised (timeout or publish error);
\* only counters are updated
OnPublishFailure(m) ==
  /\ ingestPc # "closed"
  /\ m \in pending
  /\ pending' = pending \ {m}
  /\ UNCHANGED <<lastCheck, notBridgeVars>>
  /\ UNCHANGED <<kafkaPos, assignment, buffer, received, pubPc, pubMsg,
                 published, uncommitted, commitLog, paused, shutdown, ingestPc>>

NextBridge ==
  \/ HandleShutdown
  \/ ConsumePaused
  \/ ConsumePollNone
  \/ \E p \in Partitions, decodable \in BOOLEAN : ConsumeMessage(p, decodable)
  \/ CheckBackpressure
  \/ CommitOffsets
  \/ \E timedOut \in BOOLEAN : DrainDone(timedOut)
  \/ FinalCommit
  \/ PublisherLoopTest
  \/ PublisherSleep
  \/ PublisherPop
  \/ PublisherExit
  \/ PublishAccepted
  \/ PublishRaises
  \/ \E m \in Message : OnPublishSuccess(m)
  \/ \E m \in Message : OnPublishFailure(m)


(***************************************************************************)
(* Claims about the streaming bridge                                       *)
(***************************************************************************)

\* C1: whenever _commit_offsets submits offset o+1 for a partition, every
\* message of that partition with offset <= o that was decoded and buffered
\* has already had a Pub/Sub publish complete successfully.
C1_AtLeastOnce ==
  [][\A p \in Partitions :
       Len(commitLog'[p]) > Len(commitLog[p]) =>
         \A m \in received :
           (m.partition = p /\ m.offset < commitLog'[p][Len(commitLog'[p])])
             => m \in published]_vars

\* C2: for each partition the sequence of offsets submitted by successive
\* _commit_offsets calls is non-decreasing.
C2_CommitsNonDecreasing ==
  \A p \in Partitions :
    \A i \in 1 .. Len(commitLog[p]) :
      \A j \in 1 .. Len(commitLog[p]) :
        i < j => commitLog[p][i] <= commitLog[p][j]

\* a step of _check_backpressure
BackpressureStep == ingestPc = "backpressure" /\ ingestPc' = "commit"

\* C11 (as claimed): _check_backpressure sets paused when the consumer is not
\* paused and the buffer holds >= buffer_max_size messages, and clears it when
\* the consumer is paused and the buffer holds <= buffer_resume_size messages.
C11_BackpressureThresholds ==
  [][BackpressureStep =>
       /\ (~paused /\ Len(buffer) >= buffer_max_size) => paused'
       /\ (paused /\ Len(buffer) <= buffer_resume_size) => ~paused']_vars

\* C11 (amended): the same, the pause being made only when
\* consumer.assignment() is non-empty.
C11_BackpressureThresholdsWhenAssigned ==
  [][BackpressureStep =>
       /\ (~paused /\ Len(buffer) >= buffer_max_size /\ assignment # {})
            => paused'
       /\ (paused /\ Len(buffer) <= buffer_resume_size) => ~paused']_vars

\* a check that found exactly buffer_resume_size messages resumed a consumer
\* that an earlier check had paused (at buffer_max_size, the deque's maxlen)
C11_Witness ==
  /\ ingestPc = "commit"
  /\ lastCheck.was_paused
  /\ lastCheck.buffer_size = buffer_resume_size
  /\ ~paused

\* C12: while paused is set the ingest loop does not poll the consumer (no
\* message is taken from Kafka, no rebalance is served) and appends nothing
\* to the buffer (received is the set of messages it has appended).
C12_NoPollWhilePaused ==
  [][paused =>
       /\ kafkaPos' = kafkaPos
       /\ assignment' = assignment
       /\ received' = received]_vars

\* _consume_messages has just returned, having found paused set, with
\* messages left to read
C12_Witness ==
  /\ paused
  /\ ingestPc = "backpressure"
  /\ assignment # {}
  /\ Consumed(kafkaPos) < MaxOffset

\* C13: after shutdown the publish loop keeps popping and publishing until
\* the buffer is empty or the drain wait of _graceful_shutdown is over: the
\* publisher thread does not leave its loop while messages are buffered and
\* the final commit has not been reached.
C13_PublisherDrainsAfterShutdown ==
  [][(pubPc # "exited" /\ pubPc' = "exited") =>
       \/ buffer = <<>>
       \/ ingestPc \in {"final_commit", "closed"}]_vars

\* C14: when a publish fails, raised by publish() or reported by the
\* completion callback, the message is put back at the head of the buffer.
C14_FailedPublishRequeuedAtHead ==
  [][/\ (pubPc = "publish" /\ pubPc' = "loop" /\ pubMsg \notin pending')
          => (buffer' # <<>> /\ Head(buffer') = pubMsg)
     /\ \A m \in pending \ pending' :
          m \notin published' => (buffer' # <<>> /\ Head(buffer') = m)]_vars

\* C15: when an offset is submitted for commit on a partition, some message
\* of that partition at or below the offset it stands for has already had its
\* publish complete successfully.
C15_CommitFollowsSomePublish ==
  [][\A p \in Partitions :
       Len(commitLog'[p]) > Len(commitLog[p]) =>
         \E m \in published :
           /\ m.partition = p
           /\ m.offset <= commitLog'[p][Len(commitLog'[p])] - 1]_vars

C15_Witness ==
  \E p \in Partitions :
    /\ commitLog[p] # <<>>
    /\ \E m \in published : m.partition = p

\* C33: the buffer never holds more than buffer_max_size messages, and a
\* buffered message leaves the buffer only by being popped from its head by
\* the publish loop: no append and no re-insert at the head evicts it.
C33_BufferedLeaveOnlyByPop ==
  [][/\ Len(buffer') <= buffer_max_size
     /\ \A i \in 1 .. Len(buffer) :
          \/ \E j \in 1 .. Len(buffer') : buffer'[j] = buffer[i]
          \/ i = 1 /\ pubMsg' = buffer[1] /\ buffer' = Tail(buffer)]_vars

(***************************************************************************)
(* Batch pipeline: orchestrator/main.py, validator.py, archiver.py,        *)
(* dbt_runner.py, control.py                                               *)
(***************************************************************************)
Files == 1 .. NumFiles

\* Landing object i is trades/<stem>.<ext>: objects 2k-1 and 2k share stem k
\* and differ in extension (x.csv, x.json)
StemOf(f) == (f + 1) \div 2
ExtOf(f) == IF f % 2 = 1 THEN "csv" ELSE "json"

\* _write_to_staging: output_name = f"{parent}/{base_name}_{timestamp}.parquet"
OutputName(f, ts) == <<"trades", StemOf(f), ts>>

\* an artifact left in staging by an earlier run
LeftoverName == <<"trades", 0, -1>>
\* write_health_marker writes _health/latest.json into the staging bucket
HealthName == <<"_health", 0, 0>>

StagingNames ==
  {OutputName(f, ts) : f \in Files, ts \in 0 .. MaxClock}
    \cup {LeftoverName, HealthName}

\* f"gs://{bucket.name}/{name}"
GsPath(bucket, name) == [bucket |-> bucket, name |-> name]

\* _fail_file: failed_name = f"{blob.name}_{timestamp}"
FailedName(f, ts) == <<"copy", f, ts>>
ErrorLogName(f, ts) == <<"error.txt", f, ts>>
QuarantineName(f, ts) == <<"quarantined", f, ts>>

NoFrame == [pc |-> "idle"]

\* entry of results for a blob that _validate_file has not returned for
NotVisited ==
  [visited |-> FALSE, passed |-> FALSE, failure_reason |-> "none",
   output_path |-> GsPath("none", <<>>)]

Frame(f) ==
  [pc |-> "match", blob |-> f, rows |-> 0, quarantined |-> FALSE,
   control_type |-> "none", declared |-> -1,
   output_name |-> <<>>, verified |-> FALSE, reason |-> "none",
   failed_name |-> <<>>]

FailPcs == {"fail_copy", "fail_errlog", "fail_delete", "return_fail"}

\* list(landing_bucket.list_blobs()): names in lexicographic order
RECURSIVE ListBlobs(_)
ListBlobs(S) ==
  IF S = {} THEN <<>>
  ELSE LET f == CHOOSE x \in S : \A y \in S : x <= y
       IN <<f>> \o ListBlobs(S \ {f})

InitPipeline ==
  /\ landing \in (SUBSET Files) \ {{}}
  /\ staging = [n \in StagingNames |->
                  IF n = LeftoverName THEN "data" ELSE "absent"]
  /\ failedBucket = {}
  /\ archive = {}
  /\ clock = 0
  /\ blobs = ListBlobs(landing)
  /\ vf = NoFrame
  /\ results = [f \in Files |-> NotVisited]
  /\ files_passed = 0
  /\ files_failed = 0
  /\ validated_output_paths = {}
  /\ validation_runs = {}
  /\ deleteObs = {}
  /\ dbt_result = "none"
  /\ steps = <<"validation">>
  /\ mainPc = "validation"
  /\ exitCode = -1

\* entry of _fail_file(blob, failed_bucket, source_name, reason, start_time):
\* failed_name = f"{blob.name}_{timestamp}" with the current second
EnterFailFile(reason) ==
  vf' = [vf EXCEPT !.pc = "fail_copy", !.reason = reason,
                   !.failed_name = FailedName(vf.blob, clock)]

\* Validator.run: next blob of the listing; _validate_file starts
ValidateFileBegin ==
  /\ mainPc = "validation"
  /\ vf.pc = "idle"
  /\ blobs # <<>>
  /\ vf' = Frame(Head(blobs))
  /\ blobs' = Tail(blobs)
  /\ UNCHANGED <<landing, staging, failedBucket, archive, clock, results,
                 files_passed, files_failed, validated_output_paths,
                 validation_runs, deleteObs, dbt_result, steps, mainPc, exitCode>>
  /\ UNCHANGED notPipeVars

\* _validate_file: _match_source_spec
MatchSourceSpec(found) ==
  /\ vf.pc = "match"
  /\ IF found
       THEN vf' = [vf EXCEPT !.pc = "download"]
       ELSE EnterFailFile("no_matching_spec")
  /\ UNCHANGED <<clock, landing, staging, failedBucket, archive, blobs, results,
                 files_passed, files_failed, validated_output_paths,
                 validation_runs, deleteObs, dbt_result, steps, mainPc, exitCode>>
  /\ UNCHANGED notPipeVars

\* _validate_file: blob.download_to_filename and parser.parse_and_validate;
\* raises stands for any exception of the two calls
DownloadAndParse(raises, nrows, hasQuarantined) ==
  /\ vf.pc = "download"
  /\ IF raises
       THEN EnterFailFile("exception")
       ELSE vf' = [vf EXCEPT !.pc = "control", !.rows = nrows,
                             !.quarantined = hasQuarantined]
  /\ UNCHANGED <<clock, landing, staging, failedBucket, archive, blobs, results,
                 files_passed, files_failed, validated_output_paths,
                 validation_runs, deleteObs, dbt_result, steps, mainPc, exitCode>>
  /\ UNCHANGED notPipeVars

\* spec["control_file"]["type"], "none" when the spec has no control_file
ControlTypes == {"none", "sidecar_xml", "sidecar_csv", "trailer"}

\* what the matched spec and the bucket hold when the control check starts:
\* the control_file type of the spec, and the row count its control source
\* declares (-1: none to be had, the sidecar is absent or does not parse)
ReadControl(control_type, declared) ==
  /\ vf.pc = "control"
  /\ control_type = "none" => declared = -1
  /\ vf' = [vf EXCEPT !.pc = "control_check", !.control_type = control_type,
                       !.declared = declared]
  /\ UNCHANGED <<clock, landing, staging, failedBucket, archive, blobs, results,
                 files_passed, files_failed, validated_output_paths,
                 validation_runs, deleteObs, dbt_result, steps, mainPc, exitCode>>
  /\ UNCHANGED notPipeVars

\* _get_expected_row_count: the count of a sidecar_xml or sidecar_csv control
\* file; None (-1) for every other type and for a sidecar with no count
GetExpectedRowCount(control_type, declared) ==
  IF control_type \in {"sidecar_xml", "sidecar_csv"} THEN declared ELSE -1

\* _validate_file lines 187-200: control-file check, made when the spec has a
\* control_file; the frame forgets the control source afterwards
CheckControlFile ==
  /\ vf.pc = "control_check"
  /\ LET expected == IF vf.control_type = "none" THEN -1
                      ELSE GetExpectedRowCount(vf.control_type, vf.declared)
         cleared == [vf EXCEPT !.control_type = "none", !.declared = -1]
     IN IF expected # -1 /\ vf.rows # expected
          THEN vf' = [cleared EXCEPT !.pc = "fail_copy",
                                     !.reason = "row_count_mismatch",
                                     !.failed_name = FailedName(vf.blob, clock)]
          ELSE vf' = [cleared EXCEPT !.pc = "stage"]
  /\ UNCHANGED <<clock, landing, staging, failedBucket, archive, blobs, results,
                 files_passed, files_failed, validated_output_paths,
                 validation_runs, deleteObs, dbt_result, steps, mainPc, exitCode>>
  /\ UNCHANGED notPipeVars

\* _validate_file: _write_to_staging.  upload is what the upload left behind:
\* "data" (object with content), "empty" (object of size 0), "lost" (the
\* call returned but the object is not there), "raise" (the upload raised)
WriteToStaging(ts, upload) ==
  /\ vf.pc = "stage"
  /\ ts \in clock .. MaxClock
  /\ IF upload = "raise"
       THEN /\ EnterFailFile("exception")
            /\ UNCHANGED <<staging, clock>>
       ELSE /\ clock' = ts
            /\ staging' = IF upload = "lost" THEN staging
                          ELSE [staging EXCEPT ![OutputName(vf.blob, ts)] = upload]
            /\ vf' = [vf EXCEPT !.pc = "verify",
                                !.output_name = OutputName(vf.blob, ts)]
  /\ UNCHANGED <<landing, failedBucket, archive, blobs, results,
                 files_passed, files_failed, validated_output_paths,
                 validation_runs, deleteObs, dbt_result, steps, mainPc, exitCode>>
  /\ UNCHANGED notPipeVars

\* variant: the size of the uploaded object is not examined
VerifyStagingUploadNoSizeCheck(name, reloadRaises) ==
  /\ ~reloadRaises
  /\ staging[name] # "absent"

\* _verify_staging_upload: reload the metadata; false when the reload raises
\* (NotFound or any other error) or the size is None or 0
VerifyStagingUpload(name, reloadRaises) ==
  /\ ~reloadRaises
  /\ staging[name] # "absent"
  /\ staging[name] # "empty"

\* _validate_file: verification of the staging upload
VerifyStep(reloadRaises) ==
  /\ vf.pc = "verify"
  /\ IF VerifyStagingUpload(vf.output_name, reloadRaises)
       THEN vf' = [vf EXCEPT !.pc = "quarantine", !.verified = TRUE]
       ELSE EnterFailFile("verification_failed")
  /\ UNCHANGED <<clock, landing, staging, failedBucket, archive, blobs, results,
                 files_passed, files_failed, validated_output_paths,
                 validation_runs, deleteObs, dbt_result, steps, mainPc, exitCode>>
  /\ UNCHANGED notPipeVars

\* _validate_file: _write_quarantined when there are quarantined rows
WriteQuarantined(raises) ==
  /\ vf.pc = "quarantine"
  /\ IF ~vf.quarantined
       THEN /\ ~raises
            /\ vf' = [vf EXCEPT !.pc = "delete"]
            /\ UNCHANGED failedBucket
       ELSE IF raises
         THEN EnterFailFile("exception") /\ UNCHANGED failedBucket
         ELSE /\ failedBucket' = failedBucket \cup {QuarantineName(vf.blob, clock)}
              /\ vf' = [vf EXCEPT !.pc = "delete"]
  /\ UNCHANGED <<clock, landing, staging, archive, blobs, results,
                 files_passed, files_failed, validated_output_paths,
                 validation_runs, deleteObs, dbt_result, steps, mainPc, exitCode>>
  /\ UNCHANGED notPipeVars

\* _validate_file: blob.delete on the success path; NotFound counts as
\* deleted, any other exception goes to the except clause
DeleteSource(raises) ==
  /\ vf.pc = "delete"
  /\ IF raises
       THEN /\ EnterFailFile("exception")
            /\ UNCHANGED <<landing, deleteObs>>
       ELSE /\ landing' = landing \ {vf.blob}
            /\ deleteObs' = deleteObs \cup
                 {[path |-> GsPath("staging", vf.output_name),
                   state |-> staging[vf.output_name]]}
            /\ vf' = [vf EXCEPT !.pc = "return_pass"]
  /\ UNCHANGED <<clock, staging, failedBucket, archive, blobs, results,
                 files_passed, files_failed, validated_output_paths,
                 validation_runs, dbt_result, steps, mainPc, exitCode>>
  /\ UNCHANGED notPipeVars

\* variant: the source is deleted although the copy raised
FailCopyThenDelete(raises) ==
  /\ vf.pc = "fail_copy"
  /\ IF raises
       THEN /\ vf' = [vf EXCEPT !.pc = "return_fail"]
            /\ landing' = landing \ {vf.blob}
            /\ UNCHANGED failedBucket
       ELSE /\ failedBucket' = failedBucket \cup {vf.failed_name}
            /\ vf' = [vf EXCEPT !.pc = "fail_errlog"]
            /\ UNCHANGED landing
  /\ UNCHANGED <<staging, archive, clock, blobs, results,
                 files_passed, files_failed, validated_output_paths,
                 validation_runs, deleteObs, dbt_result, steps, mainPc, exitCode>>
  /\ UNCHANGED notPipeVars

\* _fail_file: failed_blob.rewrite(blob); an exception skips to the return
FailCopy(raises) ==
  /\ vf.pc = "fail_copy"
  /\ IF raises
       THEN vf' = [vf EXCEPT !.pc = "return_fail"] /\ UNCHANGED failedBucket
       ELSE /\ failedBucket' = failedBucket \cup {vf.failed_name}
            /\ vf' = [vf EXCEPT !.pc = "fail_errlog"]
  /\ UNCHANGED <<landing, staging, archive, clock, blobs, results,
                 files_passed, files_failed, validated_output_paths,
                 validation_runs, deleteObs, dbt_result, steps, mainPc, exitCode>>
  /\ UNCHANGED notPipeVars

\* _fail_file: error_log.upload_from_string
FailErrorLog(raises) ==
  /\ vf.pc = "fail_errlog"
  /\ IF raises
       THEN vf' = [vf EXCEPT !.pc = "return_fail"] /\ UNCHANGED failedBucket
       ELSE /\ failedBucket' = failedBucket \cup
                 {ErrorLogName(vf.failed_name[2], vf.failed_name[3])}
            /\ vf' = [vf EXCEPT !.pc = "fail_delete"]
  /\ UNCHANGED <<landing, staging, archive, clock, blobs, results,
                 files_passed, files_failed, validated_output_paths,
                 validation_runs, deleteObs, dbt_result, steps, mainPc, exitCode>>
  /\ UNCHANGED notPipeVars

\* _fail_file: blob.delete after the copy
FailDelete(raises) ==
  /\ vf.pc = "fail_delete"
  /\ landing' = IF raises THEN landing ELSE landing \ {vf.blob}
  /\ vf' = [vf EXCEPT !.pc = "return_fail"]
  /\ UNCHANGED <<staging, failedBucket, archive, clock, blobs, results,
                 files_passed, files_failed, validated_output_paths,
                 validation_runs, deleteObs, dbt_result, steps, mainPc, exitCode>>
  /\ UNCHANGED notPipeVars

\* FileValidation returned by _validate_file (success path) or _fail_file
FileValidationOf(frame) ==
  IF frame.pc = "return_pass"
    THEN [visited |-> TRUE, passed |-> TRUE, failure_reason |-> "none",
          output_path |-> GsPath("staging", frame.output_name)]
    ELSE [visited |-> TRUE, passed |-> FALSE, failure_reason |-> frame.reason,
          output_path |-> GsPath("failed", frame.failed_name)]

\* variant: the output path of every result is recorded, passed or not
RecordOutputPathAlways(result, paths) ==
  paths \cup {result.output_path}

\* Validator.run: which output paths join validated_output_paths
RecordOutputPath(result, paths) ==
  IF result.passed THEN paths \cup {result.output_path} ELSE paths

\* Validator.run, after _validate_file returned: control.log_validation,
\* counters, output path
RecordResult ==
  /\ vf.pc \in {"return_pass", "return_fail"}
  /\ LET result == FileValidationOf(vf)
     IN /\ results' = [results EXCEPT ![vf.blob] = result]
        /\ validation_runs' =
             validation_runs \cup
               {[output_path |-> result.output_path,
                 passed |-> result.passed, run_timestamp |-> clock]}
        /\ files_passed' = IF result.passed THEN files_passed + 1 ELSE files_passed
        /\ files_failed' = IF result.passed THEN files_failed ELSE files_failed + 1
        /\ validated_output_paths' = RecordOutputPath(result, validated_output_paths)
  /\ vf' = NoFrame
  /\ UNCHANGED <<landing, staging, failedBucket, archive, clock, blobs,
                 deleteObs, dbt_result, steps, mainPc, exitCode>>
  /\ UNCHANGED notPipeVars

\* Validator.run returns; main logs step_started(dbt_build)
ValidationDone ==
  /\ mainPc = "validation"
  /\ vf.pc = "idle"
  /\ blobs = <<>>
  /\ steps' = Append(steps, "dbt_build")
  /\ mainPc' = "dbt"
  /\ UNCHANGED <<landing, staging, failedBucket, archive, clock, blobs, vf,
                 results, files_passed, files_failed, validated_output_paths,
                 validation_runs, deleteObs, dbt_result, exitCode>>
  /\ UNCHANGED notPipeVars

\* DbtRunner.run: DbtResult.success computed from the subprocess return code,
\* whether run_results.json could be parsed, and the failed-model count
DbtSuccess(returncode, parse_error, models_failed) ==
  IF parse_error /\ returncode # 0
    THEN FALSE
    ELSE returncode = 0 /\ models_failed = 0

\* main, step 2: dbt.run(); raises stands for an exception leaving
\* DbtRunner.run (subprocess.run cannot start dbt), which main's except takes
MainDbt(returncode, parse_error, models_failed, raises) ==
  /\ mainPc = "dbt"
  /\ parse_error => models_failed = 0
  /\ IF raises
       THEN /\ dbt_result' = "raised"
            /\ mainPc' = "except"
            /\ UNCHANGED steps
       ELSE /\ dbt_result' = IF DbtSuccess(returncode, parse_error, models_failed)
                               THEN "success" ELSE "failed"
            /\ steps' = Append(steps, "archive")
            /\ mainPc' = "archive"
  /\ UNCHANGED <<landing, staging, failedBucket, archive, clock, blobs, vf,
                 results, files_passed, files_failed, validated_output_paths,
                 validation_runs, deleteObs, exitCode>>
  /\ UNCHANGED notPipeVars

\* main line 142: Archiver(config, validation_result.validated_output_paths);
\* the second constructor argument is stored as Archiver.run_start_time
ArchiverRunStartTime == [kind |-> "set", value |-> validated_output_paths]

\* _get_processed_files: self.run_start_time.isoformat() is evaluated outside
\* the try block; a value without isoformat raises AttributeError
GetProcessedFilesRaises(run_start_time) == run_start_time.kind # "datetime"

\* _get_processed_files: the query on control.validation_runs
GetProcessedFiles(run_start_time) ==
  {r.output_path : r \in {q \in validation_runs :
      /\ q.passed
      /\ q.output_path.bucket = "staging"
      /\ q.run_timestamp < run_start_time.value}}

\* Archiver.run: the staging objects that are moved (blob.updated is the
\* upload second, which is the third component of the name)
ArchiverMoved(run_start_time) ==
  {n \in StagingNames :
     /\ staging[n] # "absent"
     /\ GsPath("staging", n) \in GetProcessedFiles(run_start_time)
     /\ ~(n[3] > run_start_time.value)}

\* write_health_marker: exceptions are swallowed (written = FALSE)
HealthMarker(stg, written) ==
  IF written THEN [stg EXCEPT ![HealthName] = "data"] ELSE stg

\* variant: main archives with ArchiverLegacy.run, which moves every staging
\* object
MainArchiveLegacy(extractDue, extractRaises, markerWritten) ==
  /\ mainPc = "archive"
  /\ LET moved == {n \in StagingNames : staging[n] # "absent"}
         afterMove == [n \in StagingNames |->
                         IF n \in moved THEN "absent" ELSE staging[n]]
     IN /\ archive' = archive \cup {<<clock, n>> : n \in moved}
        /\ IF extractDue /\ extractRaises
             THEN /\ steps' = Append(steps, "extract_generation")
                  /\ staging' = afterMove
                  /\ mainPc' = "except"
                  /\ UNCHANGED exitCode
             ELSE /\ steps' = IF extractDue
                                THEN Append(steps, "extract_generation")
                                ELSE steps
                  /\ staging' = HealthMarker(afterMove, markerWritten)
                  /\ exitCode' = IF dbt_result = "success" /\ files_failed = 0
                                   THEN 0 ELSE 1
                  /\ mainPc' = "exited"
  /\ UNCHANGED <<landing, failedBucket, clock, blobs, vf, results,
                 files_passed, files_failed, validated_output_paths,
                 validation_runs, deleteObs, dbt_result>>
  /\ UNCHANGED notPipeVars

\* main, steps 3 to 6: Archiver.run, extract, success flag, health marker,
\* return.  An exception of Archiver.run or ExtractGenerator.run goes to
\* main's except clause.
MainArchive(extractDue, extractRaises, markerWritten) ==
  /\ mainPc = "archive"
  /\ IF GetProcessedFilesRaises(ArchiverRunStartTime)
       THEN /\ mainPc' = "except"
            /\ UNCHANGED <<staging, archive, steps, exitCode>>
       ELSE LET moved == ArchiverMoved(ArchiverRunStartTime)
                afterMove == [n \in StagingNames |->
                                IF n \in moved THEN "absent" ELSE staging[n]]
            IN /\ archive' = archive \cup {<<clock, n>> : n \in moved}
               /\ IF extractDue /\ extractRaises
                    THEN /\ steps' = Append(steps, "extract_generation")
                         /\ staging' = afterMove
                         /\ mainPc' = "except"
                         /\ UNCHANGED exitCode
                    ELSE /\ steps' = IF extractDue
                                       THEN Append(steps, "extract_generation")
                                       ELSE steps
                         /\ staging' = HealthMarker(afterMove, markerWritten)
                         /\ exitCode' = IF dbt_result = "success" /\ files_failed = 0
                                          THEN 0 ELSE 1
                         /\ mainPc' = "exited"
  /\ UNCHANGED <<landing, failedBucket, clock, blobs, vf, results,
                 files_passed, files_failed, validated_output_paths,
                 validation_runs, deleteObs, dbt_result>>
  /\ UNCHANGED notPipeVars

\* main, except clause: failure health marker, return 1
MainExcept(markerWritten) ==
  /\ mainPc = "except"
  /\ staging' = HealthMarker(staging, markerWritten)
  /\ exitCode' = 1
  /\ mainPc' = "exited"
  /\ UNCHANGED <<landing, failedBucket, archive, clock, blobs, vf, results,
                 files_passed, files_failed, validated_output_paths,
                 validation_runs, deleteObs, dbt_result, steps>>
  /\ UNCHANGED notPipeVars

UploadOutcomes == {"data", "empty", "lost", "raise"}

NextPipeline ==
  \/ ValidateFileBegin
  \/ \E found \in BOOLEAN : MatchSourceSpec(found)
  \/ \E raises \in BOOLEAN, nrows \in 0 .. MaxRows, q \in BOOLEAN :
       DownloadAndParse(raises, nrows, q)
  \/ \E control_type \in ControlTypes, declared \in -1 .. MaxRows :
       ReadControl(control_type, declared)
  \/ CheckControlFile
  \/ \E ts \in 0 .. MaxClock, upload \in UploadOutcomes : WriteToStaging(ts, upload)
  \/ \E reloadRaises \in BOOLEAN : VerifyStep(reloadRaises)
  \/ \E raises \in BOOLEAN : WriteQuarantined(raises)
  \/ \E raises \in BOOLEAN : DeleteSource(raises)
  \/ \E raises \in BOOLEAN : FailCopy(raises)
  \/ \E raises \in BOOLEAN : FailErrorLog(raises)
  \/ \E raises \in BOOLEAN : FailDelete(raises)
  \/ RecordResult
  \/ ValidationDone
  \/ \E returncode \in 0 .. 1, parse_error \in BOOLEAN, models_failed \in 0 .. 1,
        raises \in BOOLEAN : MainDbt(returncode, parse_error, models_failed, raises)
  \/ \E extractDue \in BOOLEAN, extractRaises \in BOOLEAN, markerWritten \in BOOLEAN :
       MainArchive(extractDue, extractRaises, markerWritten)
  \/ \E markerWritten \in BOOLEAN : MainExcept(markerWritten)

(***************************************************************************)
(* Claims about the batch pipeline                                         *)
(***************************************************************************)
StepStarted(step) == \E i \in DOMAIN steps : steps[i] = step

\* C3: on the success path of _validate_file the source object is deleted from
\* landing only after _verify_staging_upload has confirmed that the staging
\* artifact exists with size > 0.
C3_DeleteOnlyAfterVerify ==
  [][\A f \in Files :
       (f \in landing /\ f \notin landing' /\ vf.pc \notin FailPcs) =>
         /\ vf.blob = f
         /\ vf.verified
         /\ staging[vf.output_name] = "data"]_vars

C3_Witness ==
  \E f \in Files :
    /\ results[f].passed
    /\ f \notin landing
    /\ staging[results[f].output_path.name] = "data"

\* C4: validated_output_paths contains only staging paths; each one named an
\* artifact that existed and was non-empty when its source was deleted, and
\* each one is a key of the staging bucket at the end of validation.
C4_ValidatedPathsAreStagingPaths ==
  /\ \A path \in validated_output_paths :
       /\ path.bucket = "staging"
       /\ [path |-> path, state |-> "data"] \in deleteObs
  /\ mainPc = "dbt" =>
       \A path \in validated_output_paths : staging[path.name] # "absent"

C4_Witness ==
  /\ mainPc = "dbt"
  /\ validated_output_paths # {}
  /\ files_failed > 0

C6_ValidatedAreArchivedAtEnd ==
  (mainPc = "exited" /\ StepStarted("archive")) =>
    \A path \in validated_output_paths :
      /\ staging[path.name] = "absent"
      /\ \E a \in archive : a[2] = path.name

\* C9: when staging verification fails for a file, the source object remains
\* in the landing bucket.
C9_VerificationFailureKeepsSource ==
  \A f \in Files :
    (results[f].visited /\ results[f].failure_reason = "verification_failed")
      => f \in landing

\* C10: if the transformation phase fails (success = false, or an exception),
\* the archival phase still runs in the same run.
C10_DbtFailureStillArchives ==
  (mainPc = "exited" /\ dbt_result \in {"failed", "raised"})
    => StepStarted("archive")

\* C27: main returns exit code 0 if and only if validation reported zero
\* failed files and the transformation reported no errors.
C27_ExitCodeReflectsSuccess ==
  mainPc = "exited" =>
    (exitCode = 0 <=> (files_failed = 0 /\ dbt_result = "success"))

\* C25: when the spec configures a control_file (sidecar_xml, sidecar_csv or
\* trailer) that declares a row count different from the number of accepted
\* rows, the file is failed with reason row count mismatch, and nothing is
\* written to staging for a file failed for that reason.
C25_ControlMismatchFailsFile ==
  [][/\ (/\ vf.pc = "control_check"
         /\ vf.control_type # "none"
         /\ vf.declared # -1
         /\ vf.declared # vf.rows)
          => (vf'.pc = "fail_copy" /\ vf'.reason = "row_count_mismatch")
     /\ (vf.pc \in FailPcs /\ vf.reason = "row_count_mismatch")
          => staging' = staging]_vars

\* the copy of the failing file and its companion error log are in the failed
\* bucket
CopiedToFailed(frame) ==
  /\ frame.failed_name \in failedBucket
  /\ ErrorLogName(frame.failed_name[2], frame.failed_name[3]) \in failedBucket

\* C24: _fail_file deletes the source from landing only after the copy to the
\* failed bucket and the companion .error.txt were written; when the copy
\* fails the source stays in landing.
C24_FailFileDeletesOnlyAfterCopy ==
  [][vf.pc \in FailPcs =>
       /\ (vf.blob \in landing /\ vf.blob \notin landing') => CopiedToFailed(vf)
       /\ (vf.pc = "fail_copy" /\ vf'.pc = "return_fail") => vf.blob \in landing'
       /\ (vf.pc = "return_fail" /\ vf.failed_name \notin failedBucket)
            => vf.blob \in landing]_vars

C24_Witness ==
  /\ vf.pc = "return_fail"
  /\ CopiedToFailed(vf)
  /\ vf.blob \notin landing

\* C34: when _validate_file returns a failed result for a file, the staging
\* bucket holds no artifact of the file (a file never ends both staged and
\* failed); stated for the files whose staging upload was made and verified
\* before the failure, the case of a quarantine write or source delete that
\* fails.
C34_FailedHasNoStagingArtifact ==
  (vf.pc = "return_fail" /\ vf.verified)
    => staging[vf.output_name] = "absent"

\* C37: two distinct landing objects validated in the same run have distinct
\* staging paths, so validated_output_paths has one path per validated
\* object and no artifact is overwritten by that of another object.
C37_DistinctStagingPaths ==
  \A f, g \in Files :
    (f # g /\ results[f].passed /\ results[g].passed)
      => results[f].output_path # results[g].output_path

(***************************************************************************)
(* Row validation: orchestrator/parsers.py, rules.py                       *)
(***************************************************************************)
\* rule expressions of the grammar RuleEvaluator recognises
Exprs == {"quantity > 0", "side is not null"}

\* a rule string of a spec: an expression, written with or without
\* surrounding whitespace
RuleStrings == [expr : Exprs, padded : BOOLEAN]

\* str.strip()
Strip(rule) == [rule EXCEPT !.padded = FALSE]

\* entries of validation.row_level
RuleSpecs == [rule : RuleStrings, severity : {"error", "warning"}]

RECURSIVE SeqsUpTo(_, _)
SeqsUpTo(S, n) ==
  IF n = 0 THEN {<<>>}
  ELSE LET shorter == SeqsUpTo(S, n - 1)
       IN shorter \cup {Append(q, x) : q \in {r \in shorter : Len(r) = n - 1},
                                        x \in S}

\* a row of the file: whether it passes _validate_row (types, nullability,
\* allowed values), and the expressions that evaluate to fail on it
Rows == [field_ok : BOOLEAN, fails : SUBSET Exprs]

InitParse ==
  /\ row_rules = "unset"
  /\ valid_rows = <<>>
  /\ quarantined = <<>>

\* the source spec is loaded
LoadSpec(rules) ==
  /\ row_rules = "unset"
  /\ row_rules' = rules
  /\ UNCHANGED <<valid_rows, quarantined>>
  /\ UNCHANGED notParseVars

\* RuleEvaluator.evaluate: the rule is stripped, matched and evaluated; the
\* RuleResult carries the stripped rule
Evaluate(rule, row) ==
  [passed |-> Strip(rule).expr \notin row.fails, rule |-> Strip(rule)]

\* RuleEvaluator.evaluate_all: the results of the failed rules, in rule order
RECURSIVE EvaluateAll(_, _)
EvaluateAll(rules, row) ==
  IF rules = <<>> THEN <<>>
  ELSE LET result == Evaluate(Head(rules).rule, row)
       IN (IF result.passed THEN <<>> ELSE <<result>>)
            \o EvaluateAll(Tail(rules), row)

\* Parser._apply_validation_rules lines 50-55: a failure is an error failure
\* when some rule of the spec has severity error and the failure's rule
\* string, compared as written in the spec
IsErrorFailure(f, rules) ==
  \E i \in DOMAIN rules :
    rules[i].severity = "error" /\ rules[i].rule = f.rule

\* Parser._apply_validation_rules: passed or not
ApplyValidationRules(row, rules) ==
  IF rules = <<>> THEN TRUE
  ELSE LET failures == EvaluateAll(rules, row)
           error_failures == SelectSeq(failures, LAMBDA f : IsErrorFailure(f, rules))
       IN error_failures = <<>>

\* parse_and_validate, one pass of the row loop: _validate_row, then
\* _apply_validation_rules; the row joins quarantined or valid_rows
ParseRow(row) ==
  /\ row_rules # "unset"
  /\ Len(valid_rows) + Len(quarantined) < MaxParsedRows
  /\ IF row.field_ok /\ ApplyValidationRules(row, row_rules)
       THEN /\ valid_rows' = Append(valid_rows, row)
            /\ UNCHANGED quarantined
       ELSE /\ quarantined' = Append(quarantined, row)
            /\ UNCHANGED valid_rows
  /\ UNCHANGED row_rules
  /\ UNCHANGED notParseVars

NextParse ==
  \/ \E rules \in SeqsUpTo(RuleSpecs, MaxRules) : LoadSpec(rules)
  \/ \E row \in Rows : ParseRow(row)

(***************************************************************************)
(* Claims about row validation                                             *)
(***************************************************************************)
\* the row fails a field check, or a rule of severity error evaluates to fail
\* on it
MustQuarantine(row) ==
  \/ ~row.field_ok
  \/ \E i \in DOMAIN row_rules :
       /\ row_rules[i].severity = "error"
       /\ ~Evaluate(row_rules[i].rule, row).passed

\* C26: a row is quarantined (and not accepted) if and only if it fails a
\* field check or at least one row_level rule with severity error evaluates
\* to fail on it; a row on which only warning rules fail is accepted.
C26_QuarantineIffErrorRuleFails ==
  /\ \A i \in DOMAIN quarantined : MustQuarantine(quarantined[i])
  /\ \A i \in DOMAIN valid_rows : ~MustQuarantine(valid_rows[i])

(***************************************************************************)
(* Extract generation: orchestrator/extract.py                             *)
(***************************************************************************)
InitExtract ==
  /\ temp_table = "absent"
  /\ extract_object = "absent"
  /\ ex = [pc |-> "idle"]
  /\ exits = <<>>

\* ExtractGenerator.run is entered (runs of one day share the temp table name)
ExtractBegin ==
  /\ ex.pc = "idle"
  /\ Len(exits) < MaxExtractRuns
  /\ ex' = [pc |-> "count", row_count |-> 0, in_try |-> FALSE,
            failed |-> "none", cleanup_failed |-> FALSE]
  /\ UNCHANGED <<temp_table, extract_object, exits>>
  /\ UNCHANGED notExtractVars

\* run returns (result "returned") or an exception leaves it ("raised")
ExtractExit(frame, result, table) ==
  /\ exits' = Append(exits, [result |-> result, in_try |-> frame.in_try,
                             failed |-> frame.failed,
                             cleanup_failed |-> frame.cleanup_failed,
                             temp_table |-> table])
  /\ ex' = [pc |-> "idle"]

\* lines 59-65: the count query, before the try block
CountQuery(raises, cnt) ==
  /\ ex.pc = "count"
  /\ IF raises
       THEN ExtractExit(ex, "raised", temp_table)
       ELSE ex' = [ex EXCEPT !.pc = "query", !.row_count = cnt] /\ UNCHANGED exits
  /\ UNCHANGED <<temp_table, extract_object>>
  /\ UNCHANGED notExtractVars

\* lines 85-90: the query materialised into temp_table; a failed job may or
\* may not have created the table
MaterializeQuery(raises, created) ==
  /\ ex.pc = "query"
  /\ ~raises => created
  /\ temp_table' = IF created THEN "present" ELSE temp_table
  /\ ex' = IF raises
             THEN [ex EXCEPT !.pc = "cleanup", !.in_try = TRUE, !.failed = "query"]
             ELSE [ex EXCEPT !.pc = "export", !.in_try = TRUE]
  /\ UNCHANGED <<extract_object, exits>>
  /\ UNCHANGED notExtractVars

\* lines 92-103: the export job of temp_table to the output path
ExportJob(raises) ==
  /\ ex.pc = "export"
  /\ extract_object' = IF raises THEN extract_object ELSE "data"
  /\ ex' = IF raises
             THEN [ex EXCEPT !.pc = "cleanup", !.failed = "export"]
             ELSE [ex EXCEPT !.pc = "cleanup"]
  /\ UNCHANGED <<temp_table, exits>>
  /\ UNCHANGED notExtractVars

\* variant: the temp table is deleted after a successful export only
CleanupOnSuccessOnly(raises) ==
  /\ ex.pc = "cleanup"
  /\ IF ex.failed # "none"
       THEN /\ ~raises
            /\ UNCHANGED temp_table
            /\ ExtractExit(ex, "raised", temp_table)
       ELSE /\ temp_table' = IF raises THEN temp_table ELSE "absent"
            /\ ex' = [ex EXCEPT !.pc = "size", !.cleanup_failed = raises]
            /\ UNCHANGED exits
  /\ UNCHANGED extract_object
  /\ UNCHANGED notExtractVars

\* lines 105-114, the finally block: delete_table(temp_table,
\* not_found_ok=True), whose exception is logged and dropped; then the
\* exception of the try block, if any, leaves run
Cleanup(raises) ==
  /\ ex.pc = "cleanup"
  /\ temp_table' = IF raises THEN temp_table ELSE "absent"
  /\ LET frame == [ex EXCEPT !.cleanup_failed = raises]
     IN IF ex.failed # "none"
          THEN ExtractExit(frame, "raised", temp_table')
          ELSE ex' = [frame EXCEPT !.pc = "size"] /\ UNCHANGED exits
  /\ UNCHANGED extract_object
  /\ UNCHANGED notExtractVars

\* lines 116-135: blob.reload() for the size, then the ExtractResult
GetSize(raises) ==
  /\ ex.pc = "size"
  /\ ExtractExit(ex, IF raises THEN "raised" ELSE "returned", temp_table)
  /\ UNCHANGED <<temp_table, extract_object>>
  /\ UNCHANGED notExtractVars

NextExtract ==
  \/ ExtractBegin
  \/ \E raises \in BOOLEAN, cnt \in 0 .. MaxRows : CountQuery(raises, cnt)
  \/ \E raises \in BOOLEAN, created \in BOOLEAN : MaterializeQuery(raises, created)
  \/ \E raises \in BOOLEAN : ExportJob(raises)
  \/ \E raises \in BOOLEAN : Cleanup(raises)
  \/ \E raises \in BOOLEAN : GetSize(raises)

UserColumns == {"id", "amount", "venue"}
\* columns the loader adds; their names start with an underscore
InternalColumns == {"_extra", "_load_id"}

\* cell values: every CSV column is read as a string; NULL is not a string
CellValues == {[str |-> "1"], [str |-> "2"]}
Null == [null |-> TRUE]

Range(q) == {q[i] : i \in DOMAIN q}

\* sequences over S without repetition
RECURSIVE Arrangements(_)
Arrangements(S) ==
  {<<>>} \cup UNION {{<<x>> \o q : q \in Arrangements(S \ {x})} : x \in S}

\* the column lists of a file or a table: at least one column
ColumnLists == Arrangements(UserColumns) \ {<<>>}

\* the batches read from a CSV: a list of column names and rows over them
DataFrames ==
  UNION {[columns : {cols}, rows : SeqsUpTo([Range(cols) -> CellValues], MaxDfRows)] :
           cols \in ColumnLists}

\* the target table as get_columns finds it: absent, or with a schema made of
\* user columns followed by the internal columns
NoTable == [exists |-> FALSE]
Tables ==
  {NoTable} \cup
  {[exists |-> TRUE, schema |-> cols \o <<"_extra", "_load_id">>] :
     cols \in ColumnLists}

\* value of get_columns for a table that is not there (None)
NoColumns == [found |-> FALSE]

\* DuckDBLoader.get_columns / BigQueryLoader.get_columns: the column names
\* that do not start with an underscore, None when the table does not exist
GetColumns(table) ==
  IF ~table.exists THEN NoColumns
  ELSE [found |-> TRUE,
        columns |-> SelectSeq(table.schema, LAMBDA c : c \notin InternalColumns)]

\* df.select(cols)
Select(df, cols) ==
  [columns |-> cols,
   rows |-> [i \in DOMAIN df.rows |-> [c \in Range(cols) |-> df.rows[i][c]]]]

\* df.with_columns(series.alias(name)): the column is added at the end, or
\* replaced when the frame has one of that name; values[i] is its value in row i
WithColumn(df, name, values) ==
  [columns |-> IF name \in Range(df.columns) THEN df.columns
               ELSE Append(df.columns, name),
   rows |-> [i \in DOMAIN df.rows |->
               [c \in Range(df.columns) \cup {name} |->
                  IF c = name THEN values[i] ELSE df.rows[i][c]]]]

\* pl.lit(None): the same NULL in every row
NullColumn(df) == [i \in DOMAIN df.rows |-> Null]

\* json.dumps(row) of a dict: the object with the row's keys and values
JsonDumps(row) == [json |-> row]

\* prepare_dataframe lines 181-185: NULL columns for the expected columns the
\* frame lacks, in the order of existing_columns
RECURSIVE FillMissing(_, _)
FillMissing(df, existing_columns) ==
  IF existing_columns = <<>> THEN df
  ELSE LET col == Head(existing_columns)
           filled == IF col \notin Range(df.columns)
                       THEN WithColumn(df, col, NullColumn(df)) ELSE df
       IN FillMissing(filled, Tail(existing_columns))

\* variant: expected columns missing from the batch are not added
PrepareDataframeNoFill(df, existing) ==
  IF ~existing.found
    THEN WithColumn(df, "_extra", NullColumn(df))
    ELSE LET expected_columns == Range(existing.columns)
             known == SelectSeq(df.columns, LAMBDA col : col \in expected_columns)
             extra == SelectSeq(df.columns, LAMBDA col : col \notin expected_columns)
         IN IF extra # <<>>
              THEN LET extra_data == Select(df, extra).rows
                       extra_json == [i \in DOMAIN extra_data |->
                                        JsonDumps(extra_data[i])]
                   IN WithColumn(Select(df, known), "_extra", extra_json)
              ELSE WithColumn(Select(df, known), "_extra", NullColumn(df))

\* prepare_dataframe(df, existing_columns)
PrepareDataframe(df, existing) ==
  IF ~existing.found
    THEN WithColumn(df, "_extra", NullColumn(df))
    ELSE LET expected_columns == Range(existing.columns)
             known == SelectSeq(df.columns, LAMBDA col : col \in expected_columns)
             extra == SelectSeq(df.columns, LAMBDA col : col \notin expected_columns)
             projected ==
               IF extra # <<>>
                 THEN LET extra_data == Select(df, extra).rows
                          extra_json == [i \in DOMAIN extra_data |->
                                           JsonDumps(extra_data[i])]
                      IN WithColumn(Select(df, known), "_extra", extra_json)
                 ELSE WithColumn(Select(df, known), "_extra", NullColumn(df))
         IN FillMissing(projected, existing.columns)

InitDrift == prep = [called |-> FALSE]

\* load_file lines 287-288: existing_columns = loader.get_columns(table);
\* df = prepare_dataframe(df, existing_columns)
PrepareCall(df, table) ==
  /\ ~prep.called
  /\ prep' = [called |-> TRUE, df |-> df, table |-> table,
              out |-> PrepareDataframe(df, GetColumns(table))]
  /\ UNCHANGED notDriftVars

\* the value of the _load_id column, str(uuid4())
LoadIdValue == [str |-> "load-1"]

\* DuckDBLoader.load(df, table): CREATE TABLE IF NOT EXISTS ... AS SELECT *
\* FROM df WHERE 1=0, then INSERT INTO table SELECT * FROM df.  An INSERT
\* without a column list assigns the selected columns to the table's columns
\* by position: the i-th column of df goes into the i-th column of the table.
\* The result is the table's schema and the rows this load stored.
DuckDBInsert(table, df) ==
  LET schema == IF table.exists THEN table.schema ELSE df.columns
  IN [schema |-> schema,
      rows |-> [i \in DOMAIN df.rows |->
                  [c \in Range(schema) |->
                     LET pos == CHOOSE p \in DOMAIN schema : schema[p] = c
                     IN df.rows[i][df.columns[pos]]]]]

\* load_file lines 289-293: the _load_id column is added and the prepared
\* frame is loaded
LoadPrepared ==
  /\ prep.called
  /\ "stored" \notin DOMAIN prep
  /\ LET df == WithColumn(prep.out, "_load_id",
                          [i \in DOMAIN prep.out.rows |-> LoadIdValue])
     IN prep' = [called |-> TRUE, df |-> prep.df, table |-> prep.table,
                 out |-> prep.out, stored |-> DuckDBInsert(prep.table, df)]
  /\ UNCHANGED notDriftVars

\* load_file goes on with the prepared frame
PrepareDone ==
  /\ prep.called
  /\ prep' = [called |-> FALSE]
  /\ UNCHANGED notDriftVars

NextDrift ==
  \/ \E df \in DataFrames, table \in Tables : PrepareCall(df, table)
  \/ LoadPrepared
  \/ PrepareDone

(***************************************************************************)
(* Claims about schema drift                                               *)
(***************************************************************************)
\* the user columns of a table
UserColumnsOf(table) == Range(table.schema) \ InternalColumns

\* the frame has each of its columns once
NoDuplicateColumns(df) == Len(df.columns) = Cardinality(Range(df.columns))

\* C29: for a load into an existing table with user columns E the result has
\* exactly the columns E plus _extra; columns in both the batch and E keep
\* their values; _extra is the JSON object of exactly the batch columns not
\* in E, or NULL when there are none; columns of E missing from the batch are
\* NULL.  For a first load all batch columns are kept and _extra is NULL.
C29_PrepareDataframeShape ==
  prep.called =>
    LET df == prep.df
        out == prep.out
        batch == Range(df.columns)
    IN /\ NoDuplicateColumns(out)
       /\ DOMAIN out.rows = DOMAIN df.rows
       /\ IF prep.table.exists
            THEN LET E == UserColumnsOf(prep.table)
                     new == batch \ E
                 IN /\ Range(out.columns) = E \cup {"_extra"}
                    /\ \A i \in DOMAIN out.rows :
                         /\ DOMAIN out.rows[i] = E \cup {"_extra"}
                         /\ \A c \in E \cap batch : out.rows[i][c] = df.rows[i][c]
                         /\ \A c \in E \ batch : out.rows[i][c] = Null
                         /\ out.rows[i]["_extra"] =
                              IF new = {} THEN Null
                              ELSE JsonDumps([c \in new |-> df.rows[i][c]])
            ELSE /\ Range(out.columns) = batch \cup {"_extra"}
                 /\ \A i \in DOMAIN out.rows :
                      /\ DOMAIN out.rows[i] = batch \cup {"_extra"}
                      /\ \A c \in batch : out.rows[i][c] = df.rows[i][c]
                      /\ out.rows[i]["_extra"] = Null

C29_Witness ==
  /\ prep.called
  /\ prep.table.exists
  /\ prep.df.rows # <<>>
  /\ Range(prep.df.columns) \ UserColumnsOf(prep.table) # {}
  /\ UserColumnsOf(prep.table) \ Range(prep.df.columns) # {}
  /\ UserColumnsOf(prep.table) \cap Range(prep.df.columns) # {}
  /\ prep.out.rows[1]["_extra"] # Null

\* C39: after a batch is loaded into an existing table, every stored row has
\* the batch's value of each known column under the table column of that
\* name, the JSON object of the new columns (or NULL) under _extra, and NULL
\* under every table column the batch lacks, whatever the column order of the
\* batch.
C39_StoredUnderSameName ==
  (prep.called /\ "stored" \in DOMAIN prep /\ prep.table.exists) =>
    LET df == prep.df
        stored == prep.stored
        batch == Range(df.columns)
        E == UserColumnsOf(prep.table)
        new == batch \ E
    IN /\ stored.schema = prep.table.schema
       /\ DOMAIN stored.rows = DOMAIN df.rows
       /\ \A i \in DOMAIN stored.rows :
            /\ \A c \in E \cap batch : stored.rows[i][c] = df.rows[i][c]
            /\ \A c \in E \ batch : stored.rows[i][c] = Null
            /\ stored.rows[i]["_extra"] =
                 IF new = {} THEN Null
                 ELSE JsonDumps([c \in new |-> df.rows[i][c]])
            /\ stored.rows[i]["_load_id"] = LoadIdValue

(***************************************************************************)
(* Basic orchestrator, load_file: basic_orchestrator/orchestrator          *)
(***************************************************************************)
LoadFiles == 1 .. NumLoadFiles
\* the values uuid4() returns, in the order of the calls
LoadIds == 1 .. MaxLoads

InitLoad ==
  /\ fileAt = [f \in LoadFiles |-> {"landing"}]
  /\ succeeded = {}
  /\ target = [id \in LoadIds |-> 0]
  /\ load_metadata = [id \in LoadIds |-> 0]
  /\ lf = [pc |-> "idle"]
  /\ loadsStarted = 0

\* load_file lines 222-224: a file of the landing directory, a fresh load_id
LoadFileBegin(f) ==
  /\ lf.pc = "idle"
  /\ "landing" \in fileAt[f]
  /\ loadsStarted < MaxLoads
  /\ loadsStarted' = loadsStarted + 1
  /\ lf' = [pc |-> "read", path |-> f, load_id |-> loadsStarted + 1, rows |-> 0]
  /\ succeeded' = succeeded \ {f}
  /\ UNCHANGED <<fileAt, target, load_metadata>>
  /\ UNCHANGED notLoadVars

\* how a storage.move call ends: "ok"; "raise" (nothing was moved);
\* "raise_after_copy" (GCSStorage.move: copy_blob returned and
\* src_blob.delete() raised)
MoveOutcomes == {"ok", "raise", "raise_after_copy"}

\* variant: move copies the file and leaves the original where it is
MoveCopyOnly(f, destination, outcome) ==
  IF outcome = "raise" THEN fileAt
  ELSE [fileAt EXCEPT ![f] = @ \cup {destination}]

\* storage.move(path, destination) of a landing file: LocalStorage renames,
\* GCSStorage copies the blob and then deletes the original
Move(f, destination, outcome) ==
  CASE outcome = "ok" ->
         [fileAt EXCEPT ![f] = (@ \ {"landing"}) \cup {destination}]
    [] outcome = "raise_after_copy" ->
         [fileAt EXCEPT ![f] = @ \cup {destination}]
    [] OTHER -> fileAt

\* lines 239-289: resolve the table, go file, read the CSV, trailer and go
\* file validation, prepare_dataframe, _load_id column.  outcome: "skipped"
\* (no table or no go file yet, the file stays), "invalid" (validation
\* failed, the file is moved to failed), "raise" (any exception), "ok"
ReadAndValidate(outcome, nrows, move) ==
  /\ lf.pc = "read"
  /\ outcome # "invalid" => move = "ok"
  /\ outcome # "ok" => nrows = 0
  /\ fileAt' = IF outcome = "invalid" THEN Move(lf.path, "failed", move)
               ELSE fileAt
  /\ lf' = IF outcome = "ok" THEN [lf EXCEPT !.pc = "load", !.rows = nrows]
           ELSE IF outcome = "raise" \/ move # "ok" THEN [lf EXCEPT !.pc = "except"]
           ELSE [pc |-> "idle"]
  /\ UNCHANGED <<succeeded, target, load_metadata, loadsStarted>>
  /\ UNCHANGED notLoadVars

\* lines 292-293: loader.load(df, table).  outcome: "ok"; "raise" (nothing
\* was appended); "raise_after_append" (BigQueryLoader.load: the load job
\* completed and blob.delete() in the finally block raised)
LoaderLoad(outcome) ==
  /\ lf.pc = "load"
  /\ target' = IF outcome = "raise" THEN target
               ELSE [target EXCEPT ![lf.load_id] = @ + lf.rows]
  /\ lf' = [lf EXCEPT !.pc = IF outcome = "ok" THEN "metadata" ELSE "except"]
  /\ UNCHANGED <<fileAt, succeeded, load_metadata, loadsStarted>>
  /\ UNCHANGED notLoadVars

\* lines 297-305: loader.record_metadata(LoadResult(...)); the insert raises
\* or, for BigQuery, reports errors that are raised as RuntimeError
RecordMetadata(raises) ==
  /\ lf.pc = "metadata"
  /\ load_metadata' = IF raises THEN load_metadata
                      ELSE [load_metadata EXCEPT ![lf.load_id] = @ + 1]
  /\ lf' = [lf EXCEPT !.pc = IF raises THEN "except" ELSE "archive"]
  /\ UNCHANGED <<fileAt, succeeded, target, loadsStarted>>
  /\ UNCHANGED notLoadVars

\* lines 307-316: the file is moved to the archive and load_file returns
\* success; goRaises: the move of the go file raised, after the data file
\* was moved
ArchiveFile(move, goRaises) ==
  /\ lf.pc = "archive"
  /\ move # "ok" => ~goRaises
  /\ fileAt' = Move(lf.path, "archive", move)
  /\ lf' = IF move # "ok" \/ goRaises THEN [lf EXCEPT !.pc = "except"]
           ELSE [pc |-> "idle"]
  /\ succeeded' = IF move # "ok" \/ goRaises THEN succeeded
                  ELSE succeeded \cup {lf.path}
  /\ UNCHANGED <<target, load_metadata, loadsStarted>>
  /\ UNCHANGED notLoadVars

\* lines 318-331, the except clause: the file is moved to failed; the move
\* raises when it fails or when the file is no longer in landing
ExceptMove(move) ==
  /\ lf.pc = "except"
  /\ "landing" \notin fileAt[lf.path] => move = "raise"
  /\ fileAt' = Move(lf.path, "failed", move)
  /\ lf' = [pc |-> "idle"]
  /\ UNCHANGED <<succeeded, target, load_metadata, loadsStarted>>
  /\ UNCHANGED notLoadVars

ReadOutcomes == {"ok", "skipped", "invalid", "raise"}
LoadOutcomes == {"ok", "raise", "raise_after_append"}

NextLoad ==
  \/ \E f \in LoadFiles : LoadFileBegin(f)
  \/ \E outcome \in ReadOutcomes, nrows \in 0 .. MaxDfRows, move \in MoveOutcomes :
       ReadAndValidate(outcome, nrows, move)
  \/ \E outcome \in LoadOutcomes : LoaderLoad(outcome)
  \/ \E raises \in BOOLEAN : RecordMetadata(raises)
  \/ \E move \in MoveOutcomes, goRaises \in BOOLEAN : ArchiveFile(move, goRaises)
  \/ \E move \in MoveOutcomes : ExceptMove(move)

(***************************************************************************)
(* Claims about load_file                                                  *)
(***************************************************************************)
\* C30: after any sequence of loads, every _load_id carried by a row of a
\* target table has exactly one load_metadata row (each row carries the one
\* _load_id of the load that appended it).
C30_OneMetadataRowPerLoadId ==
  lf.pc = "idle" =>
    \A id \in LoadIds : target[id] > 0 => load_metadata[id] = 1

\* C31: a file for which load_file returned success is in the archive area
\* and no longer in the landing area (every storage.move that returns has
\* removed the original), so after a run in which the loads succeeded no file
\* is in both areas.
C31_ArchivedNotInLanding ==
  \A f \in succeeded : "archive" \in fileAt[f] /\ "landing" \notin fileAt[f]

C31_Witness ==
  /\ lf.pc = "idle"
  /\ succeeded = LoadFiles
  /\ \A f \in LoadFiles : fileAt[f] = {"archive"}

(***************************************************************************)
(* Basic orchestrator, trailer records: basic_orchestrator/orchestrator    *)
(* validation.py (process_with_trailer) and main.py (load_file)            *)
(***************************************************************************)
\* characters of a CSV field
FieldChars == {"0", "1", "2", "x"}
\* pl.read_csv(data, infer_schema_length=0): every cell is text, a sequence
\* of characters (an empty field would be read as null, written <<>>); the
\* files have TrailerWidth columns
TrailerCells == {<<c>> : c \in FieldChars}
TrailerRows == [1 .. TrailerWidth -> TrailerCells]
TrailerFrames == SeqsUpTo(TrailerRows, MaxTrailerRows)

DigitValue(c) == CASE c = "0" -> 0 [] c = "1" -> 1 [] c = "2" -> 2 [] OTHER -> -1

RECURSIVE DecimalValue(_)
DecimalValue(text) ==
  IF text = <<>> THEN 0
  ELSE 10 * DecimalValue(SubSeq(text, 1, Len(text) - 1))
         + DigitValue(text[Len(text)])

\* int(cell): TypeError for None, ValueError for text that is not a decimal
\* numeral
IntOf(cell) ==
  IF cell # <<>> /\ \A i \in 1 .. Len(cell) : DigitValue(cell[i]) >= 0
  THEN [ok |-> TRUE, value |-> DecimalValue(cell)]
  ELSE [ok |-> FALSE]

\* df.head(-1): all rows but the last
HeadAllButLast(df) == IF df = <<>> THEN <<>> ELSE SubSeq(df, 1, Len(df) - 1)

\* variant: a row_count_column of 0 is taken as "no trailer column" and the
\* frame is returned unchecked
ProcessWithTrailerSkipZero(df, row_count_column) ==
  IF row_count_column = 0
  THEN [data |-> df, valid |-> TRUE, expected_rows |-> -1]
  ELSE [data |-> HeadAllButLast(df), valid |-> FALSE, expected_rows |-> -1]

\* process_with_trailer(df, row_count_column): df.row(-1) raises on an empty
\* frame, last_row[row_count_column] raises past the last column, int()
\* raises on null and on text that is no numeral; the except clause returns
\* df.head(-1) and an invalid result
ProcessWithTrailer(df, row_count_column) ==
  IF df = <<>> \/ row_count_column >= TrailerWidth
  THEN [data |-> HeadAllButLast(df), valid |-> FALSE, expected_rows |-> -1]
  ELSE LET last_row == df[Len(df)]
           expected == IntOf(last_row[row_count_column + 1])
           data == HeadAllButLast(df)
           actual == Len(data)
       IN IF ~expected.ok
          THEN [data |-> HeadAllButLast(df), valid |-> FALSE, expected_rows |-> -1]
          ELSE [data |-> data, valid |-> actual = expected.value,
                expected_rows |-> expected.value]

InitTrailer == tf = [pc |-> "idle"]

\* load_file lines 256-258: the file is read; the table has a trailer with
\* this row_count_column
TrailerRead(df, row_count_column) ==
  /\ tf.pc = "idle"
  /\ tf' = [pc |-> "trailer", df |-> df, row_count_column |-> row_count_column,
            at |-> {"landing"}, loaded |-> FALSE, moveRaised |-> FALSE]
  /\ UNCHANGED notTrailerVars

\* load_file lines 263-275: process_with_trailer; an invalid result sends the
\* file to the failed path
TrailerCheck ==
  /\ tf.pc = "trailer"
  /\ LET r == ProcessWithTrailer(tf.df, tf.row_count_column)
     IN tf' = [pc |-> IF r.valid THEN "load" ELSE "move_failed",
               df |-> tf.df, row_count_column |-> tf.row_count_column,
               at |-> tf.at, loaded |-> FALSE, moveRaised |-> FALSE,
               data |-> r.data, valid |-> r.valid,
               expected_rows |-> r.expected_rows]
  /\ UNCHANGED notTrailerVars

\* the areas holding the file after storage.move(path, destination)
MovedTo(at, destination, outcome) ==
  CASE outcome = "ok" -> (at \ {"landing"}) \cup {destination}
    [] outcome = "raise_after_copy" -> at \cup {destination}
    [] OTHER -> at

\* load_file lines 273-275: storage.move(path, failed) and return
TrailerMoveFailed(move) ==
  /\ tf.pc = "move_failed"
  /\ tf' = [tf EXCEPT !.at = MovedTo(@, "failed", move),
                      !.moveRaised = move # "ok",
                      !.pc = IF move = "ok" THEN "returned" ELSE "except"]
  /\ UNCHANGED notTrailerVars

\* load_file lines 277-316 for a file whose trailer check passed: the rows
\* left after the trailer was removed are loaded and the file is archived
TrailerLoad(move) ==
  /\ tf.pc = "load"
  /\ tf' = [tf EXCEPT !.loaded = TRUE,
                      !.at = MovedTo(@, "archive", move),
                      !.moveRaised = move # "ok",
                      !.pc = IF move = "ok" THEN "returned" ELSE "except"]
  /\ UNCHANGED notTrailerVars

\* load_file lines 318-331: the except clause moves the file to failed
TrailerExcept(move) ==
  /\ tf.pc = "except"
  /\ tf' = [tf EXCEPT !.at = MovedTo(@, "failed", move), !.pc = "returned"]
  /\ UNCHANGED notTrailerVars

\* the next file is taken
TrailerNext ==
  /\ tf.pc = "returned"
  /\ tf' = [pc |-> "idle"]
  /\ UNCHANGED notTrailerVars

NextTrailer ==
  \/ /\ tf.pc = "idle"
     /\ \E df \in TrailerFrames, row_count_column \in 0 .. TrailerWidth :
          TrailerRead(df, row_count_column)
  \/ TrailerCheck
  \/ \E move \in MoveOutcomes : TrailerMoveFailed(move)
  \/ \E move \in MoveOutcomes : TrailerLoad(move)
  \/ \E move \in MoveOutcomes : TrailerExcept(move)
  \/ TrailerNext

(***************************************************************************)
(* Claims about trailer records                                            *)
(***************************************************************************)
TrailerChecked == tf.pc \in {"load", "move_failed", "except", "returned"}

\* C32: for every row_count_column of the file, 0 included, the expected
\* count is the number in that column of the last row, the returned data is
\* the frame without its last row, and the result is valid exactly when the
\* number of remaining rows equals the expected count; a file whose trailer
\* check is invalid is never loaded and is moved to the failed path (unless
\* storage.move itself raised).
C32_TrailerCheck ==
  TrailerChecked =>
    LET n == Len(tf.df)
        c == tf.row_count_column + 1
        readable == /\ n > 0
                    /\ c <= TrailerWidth
                    /\ IntOf(tf.df[n][c]).ok
    IN /\ \A i \in 1 .. Len(tf.data) : tf.data[i] = tf.df[i]
       /\ Len(tf.data) = IF n = 0 THEN 0 ELSE n - 1
       /\ readable => tf.expected_rows = IntOf(tf.df[n][c]).value
       /\ tf.valid <=> (readable /\ Len(tf.data) = IntOf(tf.df[n][c]).value)
       /\ tf.loaded => tf.valid
       /\ (tf.pc = "returned" /\ ~tf.valid /\ ~tf.moveRaised)
            => tf.at = {"failed"}

\* an invalid trailer count in column 0
C32_Witness ==
  /\ tf.pc = "returned"
  /\ tf.row_count_column = 0
  /\ Len(tf.df) = 2
  /\ ~tf.valid /\ tf.at = {"failed"} /\ ~tf.loaded
  /\ IntOf(tf.df[2][1]).ok

(***************************************************************************)
(* Reporter, reference cache: regulatory_reporter/main.py                  *)
(***************************************************************************)
\* callers of refresh_cache: _background_refresh_loop and POST /admin/refresh-cache
Refreshers == {"background", "admin"}

\* keys of the reference tables in the warehouse
Keys == {"k1"}

\* a dict of the cache: gen identifies the dict object (0: the empty dict made
\* by ReferenceCache(), n: the dict built by the n-th refresh), keys its keys
EmptyMap == [gen |-> 0, keys |-> {}]
BuiltMap(n) == [gen |-> n, keys |-> Keys]

MapNames == {"traders", "counterparties_by_id", "counterparties_by_name",
             "instruments", "books"}

\* ReferenceCache.last_refresh before the first successful refresh
None == -1

\* CacheConfig.stale_threshold_seconds, scaled down
stale_threshold_seconds == StaleThreshold

InitCache ==
  /\ cache = [traders |-> EmptyMap, counterparties_by_id |-> EmptyMap,
              counterparties_by_name |-> EmptyMap, instruments |-> EmptyMap,
              books |-> EmptyMap, last_refresh |-> None,
              refresh_in_progress |-> FALSE]
  /\ cacheLock = "free"
  /\ genCounter = 0
  /\ rpc = [r \in Refreshers |-> "idle"]
  /\ rnew = [r \in Refreshers |-> 0]
  /\ rresult = [r \in Refreshers |-> "none"]
  /\ readerPc = "idle"
  /\ obs = [by_id |-> -1, by_name |-> -1]
  /\ statusObs = [by_id |-> -1, by_name |-> -1]
  /\ rforce = [r \in Refreshers |-> FALSE]
  /\ now = 0
  /\ healthObs = [code |-> 0, at |-> 0, last_refresh |-> None]

\* variant: a call is admitted whether or not a refresh is in progress
RefreshAdmitAlways(r, force) ==
  /\ rpc[r] = "idle"
  /\ cacheLock = "free"
  /\ genCounter < MaxRefreshes
  /\ cache' = [cache EXCEPT !.refresh_in_progress = TRUE]
  /\ rpc' = [rpc EXCEPT ![r] = "query"]
  /\ rresult' = [rresult EXCEPT ![r] = "running"]
  /\ rforce' = [rforce EXCEPT ![r] = force]
  /\ UNCHANGED <<cacheLock, genCounter, rnew, readerPc, obs, statusObs>>
  /\ UNCHANGED <<now, healthObs, notCacheVars>>

\* refresh_cache lines 120-123: admission under the lock
RefreshAdmit(r, force) ==
  /\ rpc[r] = "idle"
  /\ cacheLock = "free"
  /\ genCounter < MaxRefreshes
  /\ IF cache.refresh_in_progress /\ ~force
       THEN /\ rresult' = [rresult EXCEPT ![r] = "skipped"]
            /\ UNCHANGED <<cache, rpc>>
       ELSE /\ cache' = [cache EXCEPT !.refresh_in_progress = TRUE]
            /\ rpc' = [rpc EXCEPT ![r] = "query"]
            /\ rresult' = [rresult EXCEPT ![r] = "running"]
  /\ rforce' = [rforce EXCEPT ![r] = force]
  /\ UNCHANGED <<cacheLock, genCounter, rnew, readerPc, obs, statusObs>>
  /\ UNCHANGED <<now, healthObs, notCacheVars>>

\* variant: the traders map is assigned as soon as its query has run, before
\* a later query fails
RefreshQueryAssignsEarly(r, ok) ==
  /\ rpc[r] = "query"
  /\ IF ok
       THEN /\ genCounter' = genCounter + 1
            /\ rnew' = [rnew EXCEPT ![r] = genCounter + 1]
            /\ rpc' = [rpc EXCEPT ![r] = "swap_traders"]
            /\ UNCHANGED <<rresult, cache>>
       ELSE /\ rresult' = [rresult EXCEPT ![r] = "error"]
            /\ rpc' = [rpc EXCEPT ![r] = "finally"]
            /\ cache' = [cache EXCEPT !.traders = BuiltMap(genCounter + 1)]
            /\ UNCHANGED <<genCounter, rnew>>
  /\ UNCHANGED <<cacheLock, readerPc, obs, statusObs>>
  /\ UNCHANGED <<rforce, now, healthObs, notCacheVars>>

\* refresh_cache lines 128-173: the four warehouse queries fill local dicts;
\* a warehouse error goes to the except clause
RefreshQuery(r, ok) ==
  /\ rpc[r] = "query"
  /\ IF ok
       THEN /\ genCounter' = genCounter + 1
            /\ rnew' = [rnew EXCEPT ![r] = genCounter + 1]
            /\ rpc' = [rpc EXCEPT ![r] = "swap_traders"]
            /\ UNCHANGED rresult
       ELSE /\ rresult' = [rresult EXCEPT ![r] = "error"]
            /\ rpc' = [rpc EXCEPT ![r] = "finally"]
            /\ UNCHANGED <<genCounter, rnew>>
  /\ UNCHANGED <<cache, cacheLock, readerPc, obs, statusObs>>
  /\ UNCHANGED <<rforce, now, healthObs, notCacheVars>>

\* refresh_cache lines 176-177: take the lock, self.cache.traders = traders
SwapTraders(r) ==
  /\ rpc[r] = "swap_traders"
  /\ cacheLock = "free"
  /\ cacheLock' = r
  /\ cache' = [cache EXCEPT !.traders = BuiltMap(rnew[r])]
  /\ rpc' = [rpc EXCEPT ![r] = "swap_by_id"]
  /\ UNCHANGED <<genCounter, rnew, rresult, readerPc, obs, statusObs>>
  /\ UNCHANGED <<rforce, now, healthObs, notCacheVars>>

\* refresh_cache line 178
SwapCounterpartiesById(r) ==
  /\ rpc[r] = "swap_by_id"
  /\ cache' = [cache EXCEPT !.counterparties_by_id = BuiltMap(rnew[r])]
  /\ rpc' = [rpc EXCEPT ![r] = "swap_by_name"]
  /\ UNCHANGED <<cacheLock, genCounter, rnew, rresult, readerPc, obs, statusObs>>
  /\ UNCHANGED <<rforce, now, healthObs, notCacheVars>>

\* refresh_cache line 179
SwapCounterpartiesByName(r) ==
  /\ rpc[r] = "swap_by_name"
  /\ cache' = [cache EXCEPT !.counterparties_by_name = BuiltMap(rnew[r])]
  /\ rpc' = [rpc EXCEPT ![r] = "swap_instruments"]
  /\ UNCHANGED <<cacheLock, genCounter, rnew, rresult, readerPc, obs, statusObs>>
  /\ UNCHANGED <<rforce, now, healthObs, notCacheVars>>

\* refresh_cache line 180
SwapInstruments(r) ==
  /\ rpc[r] = "swap_instruments"
  /\ cache' = [cache EXCEPT !.instruments = BuiltMap(rnew[r])]
  /\ rpc' = [rpc EXCEPT ![r] = "swap_books"]
  /\ UNCHANGED <<cacheLock, genCounter, rnew, rresult, readerPc, obs, statusObs>>
  /\ UNCHANGED <<rforce, now, healthObs, notCacheVars>>

\* refresh_cache lines 181-182 and the release of the lock, then the return
\* value is built (status success)
SwapBooks(r) ==
  /\ rpc[r] = "swap_books"
  /\ cache' = [cache EXCEPT !.books = BuiltMap(rnew[r]),
                            !.last_refresh = now]
  /\ cacheLock' = "free"
  /\ rresult' = [rresult EXCEPT ![r] = "success"]
  /\ rpc' = [rpc EXCEPT ![r] = "finally"]
  /\ UNCHANGED <<genCounter, rnew, readerPc, obs, statusObs>>
  /\ UNCHANGED <<rforce, now, healthObs, notCacheVars>>

\* refresh_cache lines 206-208: finally, under the lock
RefreshFinally(r) ==
  /\ rpc[r] = "finally"
  /\ cacheLock = "free"
  /\ cache' = [cache EXCEPT !.refresh_in_progress = FALSE]
  /\ rpc' = [rpc EXCEPT ![r] = "idle"]
  /\ UNCHANGED <<cacheLock, genCounter, rnew, rresult, readerPc, obs, statusObs>>
  /\ UNCHANGED <<rforce, now, healthObs, notCacheVars>>

\* cache-aside lookup on one map, as the four _lookup_*_with_fallback do it:
\* no lock is taken; a miss queries the warehouse (found: the row came back)
\* and stores the row in the dict that is live
CacheAside(map, key, found) ==
  IF key \in cache[map].keys \/ ~found
    THEN cache
    ELSE [cache EXCEPT ![map].keys = @ \cup {key}]

\* _lookup_counterparty_by_id_with_fallback, called for an event that carries
\* a counterparty_id (_enrich_event line 614)
LookupCounterpartyById(key, found) ==
  /\ readerPc = "idle"
  /\ obs' = [by_id |-> cache.counterparties_by_id.gen, by_name |-> -1]
  /\ cache' = CacheAside("counterparties_by_id", key, found)
  /\ readerPc' = "looked_up_id"
  /\ UNCHANGED <<cacheLock, genCounter, rpc, rnew, rresult, statusObs>>
  /\ UNCHANGED <<rforce, now, healthObs, notCacheVars>>

\* _lookup_counterparty_by_name_with_fallback, called by the same thread for
\* its next event, which carries only a counterparty_name (line 616)
LookupCounterpartyByName(key, found) ==
  /\ readerPc = "looked_up_id"
  /\ obs' = [obs EXCEPT !.by_name = cache.counterparties_by_name.gen]
  /\ cache' = CacheAside("counterparties_by_name", key, found)
  /\ readerPc' = "looked_up_both"
  /\ UNCHANGED <<cacheLock, genCounter, rpc, rnew, rresult, statusObs>>
  /\ UNCHANGED <<rforce, now, healthObs, notCacheVars>>

\* the request thread goes on to its next pair of events
ReaderNext ==
  /\ readerPc = "looked_up_both"
  /\ readerPc' = "idle"
  /\ obs' = [by_id |-> -1, by_name |-> -1]
  /\ UNCHANGED <<cache, cacheLock, genCounter, rpc, rnew, rresult, statusObs>>
  /\ UNCHANGED <<rforce, now, healthObs, notCacheVars>>

\* get_cache_status: reads the maps under the lock
GetCacheStatus ==
  /\ cacheLock = "free"
  /\ statusObs' = [by_id |-> cache.counterparties_by_id.gen,
                   by_name |-> cache.counterparties_by_name.gen]
  /\ UNCHANGED <<cache, cacheLock, genCounter, rpc, rnew, rresult, readerPc, obs>>
  /\ UNCHANGED <<rforce, now, healthObs, notCacheVars>>

\* get_cache_status: is_stale, false while last_refresh is None
IsStale(last_refresh, at) ==
  IF last_refresh # None
    THEN at - last_refresh > stale_threshold_seconds
    ELSE FALSE

\* GET /health: get_cache_status under the lock, 503 when is_stale
Health ==
  /\ cacheLock = "free"
  /\ healthObs' = [code |-> IF IsStale(cache.last_refresh, now) THEN 503 ELSE 200,
                   at |-> now, last_refresh |-> cache.last_refresh]
  /\ UNCHANGED <<cache, cacheLock, genCounter, rpc, rnew, rresult, readerPc, obs,
                 statusObs, rforce, now>>
  /\ UNCHANGED notCacheVars

\* time passes
Tick ==
  /\ now < MaxTime
  /\ now' = now + 1
  /\ UNCHANGED <<cache, cacheLock, genCounter, rpc, rnew, rresult, readerPc, obs,
                 statusObs, rforce, healthObs>>
  /\ UNCHANGED notCacheVars

\* the steps of refresh_cache, by either caller
RefreshStep ==
  \/ \E r \in Refreshers, force \in BOOLEAN : RefreshAdmit(r, force)
  \/ \E r \in Refreshers, ok \in BOOLEAN : RefreshQuery(r, ok)
  \/ \E r \in Refreshers : SwapTraders(r)
  \/ \E r \in Refreshers : SwapCounterpartiesById(r)
  \/ \E r \in Refreshers : SwapCounterpartiesByName(r)
  \/ \E r \in Refreshers : SwapInstruments(r)
  \/ \E r \in Refreshers : SwapBooks(r)
  \/ \E r \in Refreshers : RefreshFinally(r)

\* refreshes, concurrent with a request thread doing lookups and with
\* GET /admin/cache-status
NextCache ==
  \/ RefreshStep
  \/ \E key \in Keys, found \in BOOLEAN : LookupCounterpartyById(key, found)
  \/ \E key \in Keys, found \in BOOLEAN : LookupCounterpartyByName(key, found)
  \/ ReaderNext
  \/ GetCacheStatus

\* refreshes, concurrent with GET /health, as time passes
NextHealth ==
  \/ RefreshStep
  \/ Health
  \/ Tick

(***************************************************************************)
(* Claims about the reference cache                                        *)
(***************************************************************************)

\* C8: cache refresh is observably atomic: a reader that samples
\* counterparties_by_id and counterparties_by_name never observes one map of
\* one snapshot and the other map of another.  In particular a request thread
\* that has seen the new counterparties_by_id never afterwards sees the old
\* counterparties_by_name, and get_cache_status sees both of one snapshot.
C8_RefreshObservablyAtomic ==
  /\ readerPc = "looked_up_both" => obs.by_id <= obs.by_name
  /\ statusObs.by_id = statusObs.by_name

\* the five live maps and last_refresh
Snapshot(c) == <<c.traders, c.counterparties_by_id, c.counterparties_by_name,
                 c.instruments, c.books, c.last_refresh>>

\* C16: a refresh_cache(force = false) call that arrives while
\* refresh_in_progress is true returns skipped, issues no warehouse query and
\* changes no map, last_refresh or refresh_in_progress.
C16_SkipLeavesCacheAlone ==
  [][\A r \in Refreshers :
       (/\ rpc[r] = "idle"
        /\ <<rpc'[r], rresult'[r], rforce'[r]>> # <<rpc[r], rresult[r], rforce[r]>>
        /\ cache.refresh_in_progress
        /\ ~rforce'[r])
         => /\ rresult'[r] = "skipped"
            /\ rpc'[r] = "idle"
            /\ genCounter' = genCounter
            /\ cache' = cache]_vars

\* a call was skipped while the other caller's refresh is still running
C16_Witness ==
  \E r, other \in Refreshers :
    /\ r # other
    /\ rresult[r] = "skipped"
    /\ rpc[r] = "idle"
    /\ rpc[other] # "idle"
    /\ cache.refresh_in_progress

\* C17: a refresh_cache call that fails with a warehouse error at one of its
\* queries changes none of the five live maps nor last_refresh, returns
\* status error, and has set refresh_in_progress to false when it returns.
C17_FailedRefreshKeepsSnapshot ==
  [][\A r \in Refreshers :
       /\ (rpc[r] = "idle" /\ rpc'[r] = "query")
            => Snapshot(cache') = Snapshot(cache)
       /\ (rpc[r] = "query" /\ rpc'[r] = "finally")
            => /\ Snapshot(cache') = Snapshot(cache)
               /\ rresult'[r] = "error"
       /\ (rpc[r] = "finally" /\ rresult[r] = "error" /\ rpc'[r] = "idle")
            => /\ Snapshot(cache') = Snapshot(cache)
               /\ rresult'[r] = "error"
               /\ ~cache'.refresh_in_progress]_vars

\* a refresh has failed and returned after an earlier one had succeeded
C17_Witness ==
  \E r \in Refreshers :
    /\ rresult[r] = "error"
    /\ rpc[r] = "idle"
    /\ cache.last_refresh # None
    /\ cache.books.gen > 0
    /\ ~cache.refresh_in_progress

\* C18: GET /health returns 503 when more than stale_threshold_seconds have
\* elapsed without a successful refresh (counted from the start of the
\* process when no refresh has succeeded yet), and 200 otherwise.
C18_HealthReflectsCacheAge ==
  healthObs.code # 0 =>
    LET since == IF healthObs.last_refresh = None THEN 0
                 ELSE healthObs.last_refresh
    IN healthObs.code =
         (IF healthObs.at - since > stale_threshold_seconds THEN 503 ELSE 200)

\* C36: cache.refresh_in_progress is true whenever some refresh_cache call
\* is between its admission and its completion, so that a call with
\* force = false is not admitted while a refresh is running.
C36_FlagSetWhileRefreshing ==
  (\E r \in Refreshers : rpc[r] # "idle") => cache.refresh_in_progress

(***************************************************************************)
(* Reporter, submission: regulatory_reporter/main.py                       *)
(***************************************************************************)
\* request threads of the server that run submit_event (app.run serves each
\* request on its own thread); two are modelled
Handlers == {1, 2}

\* RetryConfig.max_attempts, scaled down
max_attempts == MaxAttempts

\* events posted to /submit; "absent" marks a key the event does not carry
Events ==
  {[domain |-> "absent", source_system |-> "MX", source_event_id |-> "T1",
    trade_id |-> "absent"],
   [domain |-> "markets", source_system |-> "MX", source_event_id |-> "T1",
    trade_id |-> "absent"],
   [domain |-> "absent", source_system |-> "MX", source_event_id |-> "absent",
    trade_id |-> "T2"]}

\* dict.get(key, default)
Get(value, default) == IF value = "absent" THEN default ELSE value

\* variant: the trade_id always goes into the digest
GenerateEventIdWithTrade(event) ==
  <<"a1b2c3d4-e5f6-7890-abcd-ef1234567890", "event",
    Get(event.domain, "markets"),
    Get(event.source_system, "UNKNOWN"),
    Get(event.source_event_id, ""), Get(event.trade_id, "")>>

\* _generate_event_id: MD5 of "<NAMESPACE>:event:<domain>:<source_system>:
\* <source_event_id>"; the digest is represented by the string it is taken of
\* (MD5 taken as collision-free), the string by its list of fields
GenerateEventId(event) ==
  <<"a1b2c3d4-e5f6-7890-abcd-ef1234567890", "event",
    Get(event.domain, "markets"),
    Get(event.source_system, "UNKNOWN"),
    Get(event.source_event_id, Get(event.trade_id, ""))>>

EventIds == {GenerateEventId(e) : e \in Events}

\* HTTP status of one POST; 0 stands for httpx.TimeoutException / RequestError
Responses == {0, 200, 201, 202, 204, 400, 404, 429, 500, 503}

\* history: the kind of answer a POST got ("none" before the first POST);
\* "retryable" is a 5xx, a 429 or a timeout / request error (response 0)
ResponseClass(response) ==
  IF 200 <= response /\ response < 300 THEN "2xx"
  ELSE IF 400 <= response /\ response < 500 /\ response # 429 THEN "client_error"
  ELSE IF response = 429 \/ response = 0 \/ (500 <= response /\ response < 600)
    THEN "retryable"
  ELSE "other"

IdleFrame == [pc |-> "idle"]

InitSubmit ==
  /\ submissions = [id \in EventIds |-> 0]
  /\ dead_letter = [id \in EventIds |-> 0]
  /\ posts = [id \in EventIds |-> 0]
  /\ sub = [h \in Handlers |-> IdleFrame]
  /\ calls = <<>>
  /\ ticks = 0

ActiveCalls == Cardinality({h \in Handlers : sub[h].pc # "idle"})

\* submit_event returns (or raises): the call is complete
Complete(h, status, rowWritten) ==
  /\ calls' = Append(calls, [event |-> sub[h].event, event_id |-> sub[h].event_id,
                             status |-> status, row_written |-> rowWritten,
                             last_2xx |-> sub[h].last = "2xx",
                             began |-> sub[h].began, ended |-> ticks + 1])
  /\ ticks' = ticks + 1
  /\ sub' = [sub EXCEPT ![h] = IdleFrame]

\* submit_event line 480: a request thread starts submit_event(event)
SubmitBegin(h, event) ==
  /\ sub[h].pc = "idle"
  /\ Len(calls) + ActiveCalls < MaxCalls
  /\ sub' = [sub EXCEPT ![h] = [pc |-> "check_duplicate", event |-> event,
                                 event_id |-> GenerateEventId(event),
                                 attempt |-> 0, last |-> "none",
                                 began |-> ticks + 1]]
  /\ ticks' = ticks + 1
  /\ UNCHANGED <<submissions, dead_letter, posts, calls>>
  /\ UNCHANGED notSubmitVars

\* variant: the audit table is not consulted
IsDuplicateNever(event_id) == FALSE

\* _is_duplicate: a row with this event_id exists in the audit table
IsDuplicate(event_id) == submissions[event_id] > 0

\* submit_event lines 486-495: duplicate check (the query may raise, which
\* leaves submit_event), then _enrich_event, which always returns a payload
CheckDuplicate(h, raises) ==
  /\ sub[h].pc = "check_duplicate"
  /\ IF raises
       THEN Complete(h, "raised", FALSE)
       ELSE IF IsDuplicate(sub[h].event_id)
         THEN Complete(h, "duplicate", FALSE)
         ELSE /\ sub' = [sub EXCEPT ![h].pc = "post"]
              /\ UNCHANGED <<calls, ticks>>
  /\ UNCHANGED <<submissions, dead_letter, posts>>
  /\ UNCHANGED notSubmitVars

\* _submit_with_retry: one pass of the attempt loop.  200/201/202 return
\* success; 4xx other than 429 returns a non-retryable failure; anything else
\* is retried until max_attempts passes have been made
PostAttempt(h, response) ==
  /\ sub[h].pc = "post"
  /\ posts' = [posts EXCEPT ![sub[h].event_id] = @ + 1]
  /\ LET attempt == sub[h].attempt + 1
     IN sub' = [sub EXCEPT
          ![h].attempt = attempt,
          ![h].last = ResponseClass(response),
          ![h].pc =
             IF response \in {200, 201, 202} THEN "log_submission"
             ELSE IF 400 <= response /\ response < 500 /\ response # 429
               THEN "log_dead_letter"
             ELSE IF attempt < max_attempts THEN "post"
             ELSE "log_dead_letter"]
  /\ UNCHANGED <<submissions, dead_letter, calls, ticks>>
  /\ UNCHANGED notSubmitVars

InsertOutcomes == {"ok", "errors", "raise"}

\* submit_event lines 513-540: _log_submission then the success response.
\* insert_rows_json returns errors (only logged) or raises (leaves submit_event)
LogSubmission(h, insert) ==
  /\ sub[h].pc = "log_submission"
  /\ submissions' = IF insert = "ok"
                      THEN [submissions EXCEPT ![sub[h].event_id] = @ + 1]
                      ELSE submissions
  /\ IF insert = "raise"
       THEN Complete(h, "raised", FALSE)
       ELSE Complete(h, "success", insert = "ok")
  /\ UNCHANGED <<dead_letter, posts>>
  /\ UNCHANGED notSubmitVars

\* submit_event lines 541-561: _log_dead_letter then the error response
LogDeadLetter(h, insert) ==
  /\ sub[h].pc = "log_dead_letter"
  /\ dead_letter' = IF insert = "ok"
                      THEN [dead_letter EXCEPT ![sub[h].event_id] = @ + 1]
                      ELSE dead_letter
  /\ IF insert = "raise"
       THEN Complete(h, "raised", FALSE)
       ELSE Complete(h, "error", FALSE)
  /\ UNCHANGED <<submissions, posts>>
  /\ UNCHANGED notSubmitVars

NextSubmit ==
  \/ \E h \in Handlers, event \in Events : SubmitBegin(h, event)
  \/ \E h \in Handlers, raises \in BOOLEAN : CheckDuplicate(h, raises)
  \/ \E h \in Handlers, response \in Responses : PostAttempt(h, response)
  \/ \E h \in Handlers, insert \in InsertOutcomes : LogSubmission(h, insert)
  \/ \E h \in Handlers, insert \in InsertOutcomes : LogDeadLetter(h, insert)

(***************************************************************************)
(* Claims about submission                                                 *)
(***************************************************************************)
\* the calls made for event_id id ran one after the other, and none is running
OneAfterTheOther(id) ==
  /\ \A h \in Handlers : sub[h].pc # "idle" => sub[h].event_id # id
  /\ \A i, j \in DOMAIN calls :
       (i < j /\ calls[i].event_id = id /\ calls[j].event_id = id)
         => calls[i].ended < calls[j].began

\* calls i and j are the first and the second call made for their event_id
FirstAndSecond(i, j) ==
  /\ i < j
  /\ calls[i].event = calls[j].event
  /\ \A k \in DOMAIN calls :
       (k # i /\ k # j /\ calls[k].event_id = calls[i].event_id) => k > j

PostStep(h) ==
  /\ sub[h].pc = "post"
  /\ sub'[h].pc # "idle"
  /\ sub'[h].attempt = sub[h].attempt + 1

\* C19: _submit_with_retry issues at most max_attempts POSTs, none after a 2xx
\* response or a non-retryable response (4xx other than 429), and goes on to
\* another attempt after a 5xx, a 429 or a timeout while fewer than
\* max_attempts have been made.
C19_RetryDiscipline ==
  [][\A h \in Handlers :
       PostStep(h) =>
         /\ sub[h].attempt < max_attempts
         /\ sub[h].last \notin {"2xx", "client_error"}
         /\ (/\ sub'[h].last = "retryable"
             /\ sub'[h].attempt < max_attempts)
              => sub'[h].pc = "post"]_vars

\* C20: a submission whose last POST the regulator answered with a 2xx status
\* ends with status success (unless the audit insert raised).
C20_Any2xxIsSuccess ==
  \A i \in DOMAIN calls :
    (calls[i].last_2xx /\ calls[i].status # "raised")
      => calls[i].status = "success"

\* a step in which the submit_event call of request thread h returns or raises
CallEnds(h) == sub[h].pc # "idle" /\ sub'[h].pc = "idle"

\* C22: every submit_event call that is not answered duplicate appends exactly
\* one record: an audit row if the POST succeeded, otherwise a dead-letter row;
\* never both and never neither.  Stated for the calls that return a success
\* or an error response.
C22_ExactlyOneRecordPerCall ==
  [][\A h \in Handlers :
       (CallEnds(h) /\ calls'[Len(calls')].status \in {"success", "error"}) =>
         LET id == sub[h].event_id
         IN \/ /\ sub[h].pc = "log_submission"
               /\ submissions'[id] = submissions[id] + 1
               /\ dead_letter' = dead_letter
            \/ /\ sub[h].pc = "log_dead_letter"
               /\ dead_letter'[id] = dead_letter[id] + 1
               /\ submissions' = submissions]_vars

C35_ConcurrentSameEventOnce ==
  \A i, j \in DOMAIN calls :
    (/\ i < j
     /\ calls[i].event_id = calls[j].event_id
     /\ calls[j].began < calls[i].ended)
      => /\ ~(calls[i].last_2xx /\ calls[j].last_2xx)
         /\ ~(calls[i].row_written /\ calls[j].row_written)

(***************************************************************************)
(* Reporter, event ids: regulatory_reporter/main.py                        *)
(***************************************************************************)
\* the events _generate_event_id is called with: each key absent or present
AnyEvents ==
  [domain : {"absent", "markets"}, source_system : {"absent", "MX"},
   source_event_id : {"absent", "T1"}, trade_id : {"absent", "T1", "T2"}]

InitEventId == idCalls = <<>>

\* one call of _generate_event_id
GenerateId(event) ==
  /\ Len(idCalls) < MaxIdCalls
  /\ idCalls' = Append(idCalls, [event |-> event,
                                  event_id |-> GenerateEventId(event)])
  /\ UNCHANGED notEventIdVars

NextEventId == \E event \in AnyEvents : GenerateId(event)

\* events e and f agree on domain, source_system and source_event_id
AgreeOnKey(e, f) ==
  /\ e.domain = f.domain
  /\ e.source_system = f.source_system
  /\ e.source_event_id = f.source_event_id

\* C23 (as claimed): two events that agree on domain, source_system and
\* source_event_id get the same event_id, whatever their other fields and
\* whatever calls were made before.
C23_EventIdDependsOnKeyOnly ==
  \A i, j \in DOMAIN idCalls :
    AgreeOnKey(idCalls[i].event, idCalls[j].event)
      => idCalls[i].event_id = idCalls[j].event_id

\* C23 (amended): the same, for events that carry a source_event_id.
C23_EventIdDependsOnKeyWhenPresent ==
  \A i, j \in DOMAIN idCalls :
    (/\ AgreeOnKey(idCalls[i].event, idCalls[j].event)
     /\ idCalls[i].event.source_event_id # "absent")
      => idCalls[i].event_id = idCalls[j].event_id

C23_Witness ==
  \E i, j \in DOMAIN idCalls :
    /\ i < j
    /\ AgreeOnKey(idCalls[i].event, idCalls[j].event)
    /\ idCalls[i].event.source_event_id # "absent"
    /\ idCalls[i].event.trade_id # idCalls[j].event.trade_id
    /\ idCalls[i].event_id = idCalls[j].event_id

(***************************************************************************)
(* Reporter, retry backoff: regulatory_reporter/main.py                    *)
(***************************************************************************)
Min(a, b) == IF a <= b THEN a ELSE b

RECURSIVE Pow(_, _)
Pow(base, a) == IF a = 0 THEN 1 ELSE base * Pow(base, a - 1)

\* RetryConfig defaults (max_attempts and the delays scaled down)
DefaultRetryConfig ==
  [max_attempts |-> MaxAttempts, initial_delay_seconds |-> 1,
   max_delay_seconds |-> MaxDelay, exponential_base |-> 2]

InitBackoff ==
  /\ retry_config = DefaultRetryConfig
  /\ retry = [pc |-> "new"]
  /\ sleeps = <<>>

\* RegulatoryReporter.__init__ lines 84-88: max_attempts, initial_delay_seconds
\* and max_delay_seconds are read from the environment; exponential_base keeps
\* its default
Configure(attempts, initial, maxDelay) ==
  /\ retry.pc = "new"
  /\ retry_config' = [DefaultRetryConfig EXCEPT
                        !.max_attempts = attempts,
                        !.initial_delay_seconds = initial,
                        !.max_delay_seconds = maxDelay]
  /\ retry' = [pc |-> "ready"]
  /\ UNCHANGED sleeps
  /\ UNCHANGED notBackoffVars

\* _submit_with_retry lines 399-402: delay = initial_delay_seconds, loop entered
RetryBegin ==
  /\ retry.pc = "ready"
  /\ retry' = [pc |-> "attempt", attempt |-> 1,
               delay |-> retry_config.initial_delay_seconds]
  /\ UNCHANGED <<retry_config, sleeps>>
  /\ UNCHANGED notBackoffVars

\* lines 414-435: the POST of this attempt is answered with a success or a
\* non-retryable status, the function returns
AttemptReturns ==
  /\ retry.pc = "attempt"
  /\ retry' = [retry EXCEPT !.pc = "returned"]
  /\ UNCHANGED <<retry_config, sleeps>>
  /\ UNCHANGED notBackoffVars

\* lines 438-463: the attempt failed with a retryable status, a timeout or a
\* request error; unless it was the last attempt, sleep(delay), then
\* delay = min(delay * exponential_base, max_delay_seconds)
AttemptFails ==
  /\ retry.pc = "attempt"
  /\ IF retry.attempt < retry_config.max_attempts
       THEN /\ sleeps' = Append(sleeps, retry.delay)
            /\ retry' = [retry EXCEPT
                 !.attempt = @ + 1,
                 !.delay = Min(retry.delay * retry_config.exponential_base,
                               retry_config.max_delay_seconds)]
       ELSE /\ retry' = [retry EXCEPT !.pc = "returned"]
            /\ UNCHANGED sleeps
  /\ UNCHANGED retry_config
  /\ UNCHANGED notBackoffVars

NextBackoff ==
  \/ \E attempts \in 1 .. MaxAttempts + 1, initial \in 1 .. MaxDelay,
        maxDelay \in 1 .. MaxDelay : Configure(attempts, initial, maxDelay)
  \/ RetryBegin
  \/ AttemptReturns
  \/ AttemptFails

(***************************************************************************)
(* Claims about the retry backoff                                          *)
(***************************************************************************)
\* C21: the delay slept after failed attempt number a+1 equals
\* min(initial_delay * base^a, max_delay), for every configuration; there are
\* fewer sleeps than max_attempts (no sleep follows the last attempt).
C21_BackoffDelay ==
  /\ \A i \in DOMAIN sleeps :
       sleeps[i] = Min(retry_config.initial_delay_seconds
                         * Pow(retry_config.exponential_base, i - 1),
                       retry_config.max_delay_seconds)
  /\ Len(sleeps) < retry_config.max_attempts

(***************************************************************************)
(* Reporter, enrichment: regulatory_reporter/main.py (_enrich_event)       *)
(***************************************************************************)
\* the reference keys an event may carry; "absent" marks a missing key
EnrichEvents ==
  [trader_id : {"absent", "TR1"}, counterparty_id : {"absent", "CP1"},
   counterparty_name : {"absent", "Acme"}, instrument_id : {"absent", "IN1"}]

\* what the lookups with cache-aside fallback return for the keys of the
\* event: a record (TRUE) or None (FALSE; not in the cache and not in the
\* warehouse, or the fallback query failed)
ReferenceData ==
  [trader : BOOLEAN, counterparty_by_id : BOOLEAN,
   counterparty_by_name : BOOLEAN, instrument : BOOLEAN]

\* _enrich_event lines 608-620: which lookup supplies the counterparty
EnrichCounterparty(event, refs) ==
  IF event.counterparty_id # "absent"
    THEN [lookups |-> <<"by_id">>,
          counterparty |-> IF refs.counterparty_by_id THEN "by_id" ELSE "none"]
  ELSE IF event.counterparty_name # "absent"
    THEN [lookups |-> <<"by_name">>,
          counterparty |-> IF refs.counterparty_by_name THEN "by_name" ELSE "none"]
  ELSE [lookups |-> <<>>, counterparty |-> "none"]

\* _enrich_event: the payload fields that were added and the lookups made;
\* the function returns the payload on every path
EnrichEvent(event, refs) ==
  LET cp == EnrichCounterparty(event, refs)
  IN [returned |-> "payload",
      trader |-> event.trader_id # "absent" /\ refs.trader,
      counterparty |-> cp.counterparty,
      counterparty_lookups |-> cp.lookups,
      instrument |-> event.instrument_id # "absent" /\ refs.instrument]

InitEnrich == enr = [called |-> FALSE]

\* submit_event line 495: enriched = self._enrich_event(event)
EnrichCall(event, refs) ==
  /\ ~enr.called
  /\ enr' = [called |-> TRUE, event |-> event, refs |-> refs,
             out |-> EnrichEvent(event, refs)]
  /\ UNCHANGED notEnrichVars

\* submit_event lines 497-505: a payload goes on to _submit_with_retry, None
\* would end the call with status error
EnrichDone ==
  /\ enr.called
  /\ enr' = [called |-> FALSE]
  /\ UNCHANGED notEnrichVars

NextEnrich ==
  \/ \E event \in EnrichEvents, refs \in ReferenceData : EnrichCall(event, refs)
  \/ EnrichDone

(***************************************************************************)
(* Claims about enrichment                                                 *)
(***************************************************************************)
\* C38: the counterparty is looked up by id first and falls back to name: an
\* event whose counterparty_id is not found and which carries a
\* counterparty_name is looked up by name and, if that finds a record, the
\* record is used; and a missing reference never makes _enrich_event return
\* None (which would fail submit_event).
C38_CounterpartyFallsBackToName ==
  enr.called =>
    /\ enr.out.returned = "payload"
    /\ (/\ enr.event.counterparty_id # "absent"
        /\ ~enr.refs.counterparty_by_id
        /\ enr.event.counterparty_name # "absent")
         => /\ enr.out.counterparty_lookups = <<"by_id", "by_name">>
            /\ enr.refs.counterparty_by_name => enr.out.counterparty = "by_name"

(***************************************************************************)
(* Basic orchestrator, load_all: basic_orchestrator/orchestrator/main.py   *)
(***************************************************************************)
\* config.workers (LOADER_WORKERS), the threads of the pool
Workers == 1 .. LoaderWorkers
\* the files of the landing directory passed to load_all
PoolFiles == 1 .. NumPoolFiles

\* resolve_table: every third file is a prices file, the others are trades
\* files, so several files map to one table
TableOf(f) == IF f % 3 = 0 THEN "raw_prices" ELSE "raw_trades"
TargetTables == {TableOf(f) : f \in PoolFiles}

\* load_all lines 358-365: one load_file task per file is submitted, in the
\* order of the list
RECURSIVE FilesInOrder(_)
FilesInOrder(n) == IF n = 0 THEN <<>> ELSE Append(FilesInOrder(n - 1), n)

WorkerIdle == [pc |-> "idle"]

InitPool ==
  /\ tasks = FilesInOrder(NumPoolFiles)
  /\ worker = [w \in Workers |-> WorkerIdle]
  /\ tables = [t \in TargetTables |-> FALSE]

\* ThreadPoolExecutor: a free thread takes the next task and starts
\* load_file(f, ...); lines 222-284, up to the schema probe
TakeTask(w) ==
  /\ worker[w].pc = "idle"
  /\ tasks # <<>>
  /\ worker' = [worker EXCEPT ![w] =
                  [pc |-> "get_columns", file |-> Head(tasks), existing |-> FALSE]]
  /\ tasks' = Tail(tasks)
  /\ UNCHANGED tables
  /\ UNCHANGED notPoolVars

\* load_file line 287: existing_columns = loader.get_columns(table)
PoolGetColumns(w) ==
  /\ worker[w].pc = "get_columns"
  /\ worker' = [worker EXCEPT ![w].pc = "prepare_dataframe",
                              ![w].existing = tables[TableOf(worker[w].file)]]
  /\ UNCHANGED <<tasks, tables>>
  /\ UNCHANGED notPoolVars

\* load_file lines 288-289: prepare_dataframe for the schema that was probed
PoolPrepare(w) ==
  /\ worker[w].pc = "prepare_dataframe"
  /\ worker' = [worker EXCEPT ![w].pc = "load"]
  /\ UNCHANGED <<tasks, tables>>
  /\ UNCHANGED notPoolVars

\* load_file lines 292-316: loader.load creates the table if it is not there
\* and appends; the call then returns and the thread is free
PoolLoad(w) ==
  /\ worker[w].pc = "load"
  /\ tables' = [tables EXCEPT ![TableOf(worker[w].file)] = TRUE]
  /\ worker' = [worker EXCEPT ![w] = WorkerIdle]
  /\ UNCHANGED tasks
  /\ UNCHANGED notPoolVars

NextPool ==
  \/ \E w \in Workers : TakeTask(w)
  \/ \E w \in Workers : PoolGetColumns(w)
  \/ \E w \in Workers : PoolPrepare(w)
  \/ \E w \in Workers : PoolLoad(w)

(***************************************************************************)
(* Claims about load_all                                                   *)
(***************************************************************************)
\* the thread is in the get_columns / prepare_dataframe / loader.load steps
InLoadSteps(w) == worker[w].pc \in {"get_columns", "prepare_dataframe", "load"}

\* C40: writes to one table are serialized: no two load_file invocations for
\* files of the same table are in their get_columns / prepare_dataframe /
\* loader.load steps at the same time, and so the schema a thread probed is
\* still the table's schema when it prepares and loads.
C40_SameTableSerialized ==
  /\ \A v, w \in Workers :
       (v # w /\ InLoadSteps(v) /\ InLoadSteps(w))
         => TableOf(worker[v].file) # TableOf(worker[w].file)
  /\ \A w \in Workers :
       worker[w].pc \in {"prepare_dataframe", "load"}
         => worker[w].existing = tables[TableOf(worker[w].file)]

(***************************************************************************)
(* Specifications                                                          *)
(***************************************************************************)
\* every specification starts from the state after construction of all
\* subsystems and runs one of them
Init ==
  /\ InitBridge /\ InitPipeline /\ InitCache /\ InitSubmit
  /\ InitBackoff /\ InitEventId /\ InitParse /\ InitExtract /\ InitDrift
  /\ InitLoad /\ InitTrailer /\ InitEnrich /\ InitPool

\* the same with every file present in landing
InitAllLanded == Init /\ landing = Files

BridgeSpec == InitAllLanded /\ [][NextBridge]_vars

PipelineSpec == Init /\ [][NextPipeline]_vars

CacheSpec == InitAllLanded /\ [][NextCache]_vars

HealthSpec == InitAllLanded /\ [][NextHealth]_vars

SubmitSpec == InitAllLanded /\ [][NextSubmit]_vars

BackoffSpec == InitAllLanded /\ [][NextBackoff]_vars

EventIdSpec == InitAllLanded /\ [][NextEventId]_vars

ParseSpec == InitAllLanded /\ [][NextParse]_vars

ExtractSpec == InitAllLanded /\ [][NextExtract]_vars

DriftSpec == InitAllLanded /\ [][NextDrift]_vars

LoadFileSpec == InitAllLanded /\ [][NextLoad]_vars

TrailerSpec == InitAllLanded /\ [][NextTrailer]_vars

EnrichSpec == InitAllLanded /\ [][NextEnrich]_vars

LoadAllSpec == InitAllLanded /\ [][NextPool]_vars

=============================================================================
